---- MODULE Spec2Model ----
(***************************************************************************)
(* Model of the TNB Rates energy accumulation engine (TNBEnergyTracker in  *)
(* custom_components/tnb_rates/coordinator.py) together with the sensor    *)
(* entities that restore it (sensor.py) and the setup code (__init__.py).  *)
(*                                                                         *)
(* Energy quantities are Decimals in the source; the model uses whole kWh, *)
(* on which Decimal arithmetic is exact.  A datetime is a record           *)
(* [y, m, d, hh, mm]; Python compares datetimes component by component,    *)
(* which TKey reproduces.                                                  *)
(***************************************************************************)
EXTENDS Integers, Sequences, FiniteSets, TLC

VARIABLES
    tracker,    \* the TNBEnergyTracker object: one field per attribute
    now,        \* the wall clock read by dt_util.now()
    added,      \* energy sensor entities whose async_added_to_hass has run
    call        \* the last call made on the engine: operation, arguments, result

vars == <<tracker, now, added, call>>

----------------------------------------------------------------------------
(* Bounds of the model *)

\* ingestion is explored while every energy counter stays within this cap
MaxKwh == 3
\* register_sensor_restored() is explored up to this many calls
MaxCalls == 6
\* rollovers are explored while the carried NEM balance stays within this cap
MaxNem == 4

----------------------------------------------------------------------------
(* Program constants *)

SENSOR_RESET_THRESHOLD == 10
TARIFF_STANDARD == "Standard"
TARIFF_TOU == "Time of Use"
STATE_UNAVAILABLE == "unavailable"
STATE_UNKNOWN == "unknown"
\* clamp limits of restore_state / set_values and of the billing day
MAX_KWH_LIMIT == 100000
MAX_BILLING_DAY == 28

----------------------------------------------------------------------------
(* Option values: Python's None is the empty sequence, a value v is <<v>> *)

None == <<>>
Some(v) == <<v>>
IsNone(o) == o = <<>>
Get(o) == o[1]

Max(a, b) == IF a >= b THEN a ELSE b
Min(a, b) == IF a <= b THEN a ELSE b

----------------------------------------------------------------------------
(* Datetimes *)

DT(y, m, d, hh, mm) == [y |-> y, m |-> m, d |-> d, hh |-> hh, mm |-> mm]

\* order-preserving key: datetime.__lt__ compares (year, month, day, hour, minute)
TKey(t) == (((t.y * 12 + (t.m - 1)) * 31 + (t.d - 1)) * 24 + t.hh) * 60 + t.mm

\* variant: an instant counts as before itself
Before_inclusive(a, b) == TKey(a) <= TKey(b)

Before(a, b) == TKey(a) < TKey(b)

\* the instants the clock, and a stored last_reset, can take
Times == { DT(2024, 12, 10, 16, 0),
           DT(2024, 12, 20, 10, 0),
           DT(2025, 1, 1, 0, 0),
           DT(2025, 1, 10, 16, 0),
           DT(2025, 1, 20, 16, 0),
           DT(2025, 2, 17, 16, 0) }

FirstTime == CHOOSE t \in Times : \A u \in Times : TKey(t) <= TKey(u)

\* days since 1970-01-01 of a civil date (proleptic Gregorian)
DaysFromCivil(y, m, d) ==
    LET yy  == IF m <= 2 THEN y - 1 ELSE y
        era == yy \div 400
        yoe == yy - era * 400
        mp  == IF m > 2 THEN m - 3 ELSE m + 9
        doy == (153 * mp + 2) \div 5 + d - 1
        doe == yoe * 365 + yoe \div 4 - yoe \div 100 + doy
    IN  era * 146097 + doe - 719468

\* variant: Sunday is 0, Saturday is 6
Weekday_sunday_first(t) == (DaysFromCivil(t.y, t.m, t.d) + 4) % 7

\* datetime.weekday(): Monday is 0, Sunday is 6
Weekday(t) == (DaysFromCivil(t.y, t.m, t.d) + 3) % 7

----------------------------------------------------------------------------
(* Time-of-use classification (calculations.py) *)

\* the "tou" section of the rate table snapshot held by the coordinator;
\* parse_ok is FALSE when peak_start / peak_end do not parse as "%H:%M"
TouConfig ==
    [ parse_ok           |-> TRUE,
      peak_start         |-> [hh |-> 14, mm |-> 0],
      peak_end           |-> [hh |-> 22, mm |-> 0],
      weekend_is_offpeak |-> TRUE,
      public_holidays    |-> { [y |-> 2025, m |-> 1, d |-> 1] } ]

\* variant: the minutes are dropped
TimeOfDay_hour(hm) == hm.hh * 60

TimeOfDay(hm) == hm.hh * 60 + hm.mm

\* variant: the limit of a tier is not part of the tier
select_tier_strict(total_kwh, tiers) ==
    IF tiers = <<>> THEN None
    ELSE LET hits == { i \in 1..Len(tiers) : total_kwh < tiers[i].limit }
         IN  IF hits = {} THEN Some(tiers[Len(tiers)])
             ELSE Some(tiers[CHOOSE i \in hits : \A j \in hits : i <= j])

\* select_tier: the first tier of the list, in list order, whose limit is not
\* below the usage; the last tier when there is none; None for an empty list
select_tier(total_kwh, tiers) ==
    IF tiers = <<>> THEN None
    ELSE LET hits == { i \in 1..Len(tiers) : total_kwh <= tiers[i].limit }
         IN  IF hits = {} THEN Some(tiers[Len(tiers)])
             ELSE Some(tiers[CHOOSE i \in hits : \A j \in hits : i <= j])

\* variant: every hour of a working day is peak
is_peak_time_all_day(current_time, tou_config) ==
    IF ~ tou_config.parse_ok THEN FALSE
    ELSE IF tou_config.weekend_is_offpeak /\ Weekday(current_time) >= 5 THEN FALSE
    ELSE [y |-> current_time.y, m |-> current_time.m, d |-> current_time.d]
             \notin tou_config.public_holidays

is_peak_time(current_time, tou_config) ==
    IF ~ tou_config.parse_ok THEN FALSE
    ELSE IF tou_config.weekend_is_offpeak /\ Weekday(current_time) >= 5 THEN FALSE
    ELSE IF [y |-> current_time.y, m |-> current_time.m, d |-> current_time.d]
                \in tou_config.public_holidays THEN FALSE
    ELSE /\ TimeOfDay(tou_config.peak_start) <= TimeOfDay(current_time)
         /\ TimeOfDay(current_time) < TimeOfDay(tou_config.peak_end)

----------------------------------------------------------------------------
(* TNBEnergyTracker (coordinator.py) *)

\* __init__: the object right after construction
NewTracker(billing_day, tariff_type) ==
    [ total_kwh         |-> 0,
      billing_day       |-> Max(1, Min(MAX_BILLING_DAY, billing_day)),
      tariff_type       |-> tariff_type,
      peak_kwh          |-> 0,
      offpeak_kwh       |-> 0,
      export_kwh        |-> 0,
      nem_balance       |-> 0,
      last_reset        |-> None,
      restored          |-> FALSE,
      expected_sensors  |-> 0,
      restored_sensors  |-> 0,
      fully_restored    |-> FALSE,
      last_import_state |-> None,
      last_export_state |-> None ]

\* max(0, min(100000, v))
\* variant: only the upper limit is enforced
Clamp_upper(v) == Min(MAX_KWH_LIMIT, v)

Clamp(v) == Max(0, Min(MAX_KWH_LIMIT, v))

is_restored(tr) == tr.fully_restored \/ tr.restored

\* variant: a bulk restore that also starts the restoration protocol afresh
restore_state_afresh(tr, peak_kwh, offpeak_kwh, total_kwh, export_kwh, last_reset) ==
    [tr EXCEPT !.peak_kwh    = Clamp(peak_kwh),
               !.offpeak_kwh = Clamp(offpeak_kwh),
               !.total_kwh   = Clamp(total_kwh),
               !.export_kwh  = Clamp(export_kwh),
               !.last_reset  = last_reset,
               !.restored = FALSE,
               !.fully_restored = FALSE,
               !.restored_sensors = 0]

restore_state(tr, peak_kwh, offpeak_kwh, total_kwh, export_kwh, last_reset) ==
    [tr EXCEPT !.peak_kwh    = Clamp(peak_kwh),
               !.offpeak_kwh = Clamp(offpeak_kwh),
               !.total_kwh   = Clamp(total_kwh),
               !.export_kwh  = Clamp(export_kwh),
               !.last_reset  = last_reset]

\* variant: the peak setter recomputes the Time of Use total at once
set_peak_kwh_reconciling(tr, value) ==
    [tr EXCEPT !.peak_kwh  = value,
               !.total_kwh = IF tr.tariff_type = TARIFF_TOU
                             THEN value + tr.offpeak_kwh ELSE @]

set_peak_kwh(tr, value) == [tr EXCEPT !.peak_kwh = value]
set_offpeak_kwh(tr, value) == [tr EXCEPT !.offpeak_kwh = value]
set_total_kwh(tr, value) == [tr EXCEPT !.total_kwh = value]
set_export_kwh(tr, value) == [tr EXCEPT !.export_kwh = value]
\* variant: the balance is stored as given
set_nem_balance_kwh_raw(tr, value) == [tr EXCEPT !.nem_balance = value]

set_nem_balance_kwh(tr, value) == [tr EXCEPT !.nem_balance = Max(0, value)]
set_last_reset(tr, value) == [tr EXCEPT !.last_reset = value]
set_expected_sensor_count(tr, count) == [tr EXCEPT !.expected_sensors = count]

mark_as_restored(tr) == [tr EXCEPT !.restored = TRUE, !.fully_restored = TRUE]

\* variant: the restored total is kept as it is
reconcile_tou_total_keep(tr) == tr

reconcile_tou_total(tr) ==
    IF tr.tariff_type = TARIFF_TOU /\ tr.total_kwh # tr.peak_kwh + tr.offpeak_kwh
    THEN [tr EXCEPT !.total_kwh = tr.peak_kwh + tr.offpeak_kwh]
    ELSE tr

\* variant: the billing day of the current month, with no step back
calculate_period_start_this_month(tr, current_time) ==
    [current_time EXCEPT !.d = tr.billing_day, !.hh = 0, !.mm = 0]

\* _calculate_period_start: 00:00 on the billing day of this month, or of the
\* previous month when the billing day is still to come
calculate_period_start(tr, current_time) ==
    LET start == [current_time EXCEPT !.d = tr.billing_day, !.hh = 0, !.mm = 0]
    IN  IF current_time.d < tr.billing_day
        THEN IF current_time.m = 1
             THEN [start EXCEPT !.y = current_time.y - 1, !.m = 12]
             ELSE [start EXCEPT !.m = current_time.m - 1]
        ELSE start

\* the January 1st 00:00 of current_time's year
year_reset_date(current_time) ==
    [current_time EXCEPT !.m = 1, !.d = 1, !.hh = 0, !.mm = 0]

\* variant: the yearly test made with <= in place of <
check_reset_branch_inclusive(tr, current_time) ==
    IF IsNone(tr.last_reset) THEN "first"
    ELSE IF ~ Before(Get(tr.last_reset), calculate_period_start(tr, current_time))
    THEN "none"
    ELSE IF /\ ~ Before(year_reset_date(current_time), Get(tr.last_reset))
            /\ ~ Before(current_time, year_reset_date(current_time))
    THEN "forfeit"
    ELSE "carry"

\* which branch of _check_reset runs:
\*   "first"   last_reset is None: it is set to current_time, nothing else
\*   "none"    last_reset is inside the current period: nothing happens
\*   "forfeit" rollover that discards the NEM balance
\*   "carry"   rollover that adds the excess export to the NEM balance
check_reset_branch(tr, current_time) ==
    IF IsNone(tr.last_reset) THEN "first"
    ELSE IF ~ Before(Get(tr.last_reset), calculate_period_start(tr, current_time))
    THEN "none"
    ELSE IF /\ Before(Get(tr.last_reset), year_reset_date(current_time))
            /\ ~ Before(current_time, year_reset_date(current_time))
    THEN "forfeit"
    ELSE "carry"

current_import(tr) ==
    IF tr.tariff_type = TARIFF_TOU THEN tr.peak_kwh + tr.offpeak_kwh ELSE tr.total_kwh

\* variant: the excess without the max(0, ...)
current_excess_signed(tr) == tr.export_kwh - current_import(tr)

current_excess(tr) == Max(0, tr.export_kwh - current_import(tr))

\* variant: last_reset is set to the start of the period, not to the time
\* of the check
check_reset_to_period_start(tr, current_time) ==
    LET branch == check_reset_branch(tr, current_time)
    IN  IF branch = "first" THEN [tr EXCEPT !.last_reset = Some(current_time)]
        ELSE IF branch = "none" THEN tr
        ELSE [tr EXCEPT
                !.nem_balance = IF branch = "forfeit" THEN 0
                                ELSE tr.nem_balance + current_excess(tr),
                !.peak_kwh    = 0,
                !.offpeak_kwh = 0,
                !.total_kwh   = 0,
                !.export_kwh  = 0,
                !.last_reset  = Some(calculate_period_start(tr, current_time))]

check_reset(tr, current_time) ==
    LET branch == check_reset_branch(tr, current_time)
    IN  IF branch = "first" THEN [tr EXCEPT !.last_reset = Some(current_time)]
        ELSE IF branch = "none" THEN tr
        ELSE [tr EXCEPT
                !.nem_balance = IF branch = "forfeit" THEN 0
                                ELSE tr.nem_balance + current_excess(tr),
                !.peak_kwh    = 0,
                !.offpeak_kwh = 0,
                !.total_kwh   = 0,
                !.export_kwh  = 0,
                !.last_reset  = Some(current_time)]

\* register_sensor_restored: the test made after the count is incremented;
\* when it holds the call runs the completion step and returns True
register_completes(tr) == tr.restored_sensors + 1 >= tr.expected_sensors

\* the deferred rollover check of the completion step runs _check_reset only
\* when last_reset is set and lies before the current period
register_checks_reset(tr, current_time) ==
    /\ ~ IsNone(tr.last_reset)
    /\ Before(Get(tr.last_reset), calculate_period_start(tr, current_time))

\* variant: the completion step without the deferred rollover check
register_sensor_restored_unchecked(tr, current_time) ==
    LET counted == [tr EXCEPT !.restored_sensors = @ + 1]
    IN  IF register_completes(tr)
        THEN [reconcile_tou_total(counted)
                EXCEPT !.fully_restored = TRUE, !.restored = TRUE]
        ELSE counted

register_sensor_restored(tr, current_time) ==
    LET counted == [tr EXCEPT !.restored_sensors = @ + 1]
    IN  IF register_completes(tr)
        THEN LET done == [reconcile_tou_total(counted)
                            EXCEPT !.fully_restored = TRUE, !.restored = TRUE]
             IN  IF register_checks_reset(done, current_time)
                 THEN check_reset(done, current_time)
                 ELSE done
        ELSE counted

\* _process_import_delta with current_time = None: the clock is read
process_import_delta(tr, delta, current_time) ==
    LET checked == IF is_restored(tr) THEN check_reset(tr, current_time) ELSE tr
    IN  IF delta <= 0 THEN checked
        ELSE IF tr.tariff_type # TARIFF_TOU
        THEN [checked EXCEPT !.total_kwh = @ + delta]
        ELSE IF is_peak_time(current_time, TouConfig)
        THEN [checked EXCEPT !.peak_kwh  = @ + delta,
                             !.total_kwh = checked.peak_kwh + delta + checked.offpeak_kwh]
        ELSE [checked EXCEPT !.offpeak_kwh = @ + delta,
                             !.total_kwh   = checked.peak_kwh + checked.offpeak_kwh + delta]

----------------------------------------------------------------------------
(* Sample ingestion (coordinator.py) *)

\* a host state object as handed to the handlers: kind "none" is Python's
\* None, "unavailable" / "unknown" are the two sentinel states, "text" is a
\* state string float() rejects, "num" one it parses to val
Sample(kind, val) == [kind |-> kind, val |-> val]
NoSample == Sample("none", 0)
Num(v) == Sample("num", v)

\* new_state is None or new_state.state in (STATE_UNAVAILABLE, STATE_UNKNOWN)
IsMissing(state) == state.kind \in {"none", STATE_UNAVAILABLE, STATE_UNKNOWN}
\* variant: float() also accepts a number followed by text
IsNumeric_lenient(state) == state.kind \in {"num", "text"}

\* float(state.state) succeeds
IsNumeric(state) == state.kind = "num"

\* variant: no reset detection, the delta is always new - old
sample_delta_plain(new_val, old_val) == new_val - old_val

\* the delta of a numeric sample pair, reset detection included
sample_delta(new_val, old_val) ==
    IF new_val < old_val
    THEN IF new_val < SENSOR_RESET_THRESHOLD THEN new_val ELSE 0
    ELSE new_val - old_val

\* the handler reaches the delta computation
IsDeltaSample(new_state, old_state) ==
    /\ ~ IsMissing(new_state) /\ IsNumeric(new_state)
    /\ ~ IsMissing(old_state) /\ IsNumeric(old_state)

\* variant: the delta is processed when delta >= 0
handle_import_change_eager(tr, new_state, old_state, current_time) ==
    IF IsMissing(new_state) THEN tr
    ELSE IF ~ IsNumeric(new_state) THEN tr
    ELSE IF IsMissing(old_state)
    THEN [tr EXCEPT !.last_import_state = Some(new_state.val)]
    ELSE IF ~ IsNumeric(old_state) THEN tr
    ELSE LET delta == sample_delta(new_state.val, old_state.val)
             processed == IF delta >= 0
                          THEN process_import_delta(tr, delta, current_time)
                          ELSE tr
         IN  [processed EXCEPT !.last_import_state = Some(new_state.val)]

handle_import_change(tr, new_state, old_state, current_time) ==
    IF IsMissing(new_state) THEN tr
    ELSE IF ~ IsNumeric(new_state) THEN tr
    ELSE IF IsMissing(old_state)
    THEN [tr EXCEPT !.last_import_state = Some(new_state.val)]
    ELSE IF ~ IsNumeric(old_state) THEN tr
    ELSE LET delta == sample_delta(new_state.val, old_state.val)
             processed == IF delta > 0
                          THEN process_import_delta(tr, delta, current_time)
                          ELSE tr
         IN  [processed EXCEPT !.last_import_state = Some(new_state.val)]

\* variant: the export delta is accumulated before the rollover check
handle_export_change_accumulating_first(tr, new_state, old_state, current_time) ==
    IF ~ IsDeltaSample(new_state, old_state)
    THEN IF IsMissing(new_state) \/ ~ IsNumeric(new_state) \/ ~ IsMissing(old_state) THEN tr
         ELSE [tr EXCEPT !.last_export_state = Some(new_state.val)]
    ELSE LET delta == sample_delta(new_state.val, old_state.val)
             processed == IF delta > 0
                          THEN [tr EXCEPT !.export_kwh = @ + delta]
                          ELSE tr
             checked == IF delta > 0 /\ is_restored(tr)
                        THEN check_reset(processed, current_time)
                        ELSE processed
         IN  [checked EXCEPT !.last_export_state = Some(new_state.val)]

handle_export_change(tr, new_state, old_state, current_time) ==
    IF IsMissing(new_state) THEN tr
    ELSE IF ~ IsNumeric(new_state) THEN tr
    ELSE IF IsMissing(old_state)
    THEN [tr EXCEPT !.last_export_state = Some(new_state.val)]
    ELSE IF ~ IsNumeric(old_state) THEN tr
    ELSE LET delta == sample_delta(new_state.val, old_state.val)
             checked == IF delta > 0 /\ is_restored(tr)
                        THEN check_reset(tr, current_time)
                        ELSE tr
             processed == IF delta > 0
                          THEN [checked EXCEPT !.export_kwh = @ + delta]
                          ELSE checked
         IN  [processed EXCEPT !.last_export_state = Some(new_state.val)]

\* the value both handlers return
handle_change_returns(new_state, old_state) == IsDeltaSample(new_state, old_state)

\* the branch of _check_reset an ingestion call runs, "skipped" when it does
\* not call _check_reset at all
ingest_reset_branch(tr, new_state, old_state, current_time) ==
    IF /\ IsDeltaSample(new_state, old_state)
       /\ sample_delta(new_state.val, old_state.val) > 0
       /\ is_restored(tr)
    THEN check_reset_branch(tr, current_time)
    ELSE "skipped"

\* the branch of _check_reset a register_sensor_restored call runs
register_reset_branch(tr, current_time) ==
    IF register_completes(tr) /\ register_checks_reset(tr, current_time)
    THEN check_reset_branch(tr, current_time)
    ELSE "skipped"

----------------------------------------------------------------------------
(* Manual correction (coordinator.py, sensor.py) *)

\* variant: a correction in Time of Use mode recomputes the total
set_values_reconciling(tr, peak_kwh, offpeak_kwh, total_kwh, export_kwh, nem_balance_kwh) ==
    reconcile_tou_total(
        [tr EXCEPT
           !.peak_kwh    = IF IsNone(peak_kwh) THEN @ ELSE Clamp(Get(peak_kwh)),
           !.offpeak_kwh = IF IsNone(offpeak_kwh) THEN @ ELSE Clamp(Get(offpeak_kwh)),
           !.total_kwh   = IF IsNone(total_kwh) THEN @ ELSE Clamp(Get(total_kwh)),
           !.export_kwh  = IF IsNone(export_kwh) THEN @ ELSE Clamp(Get(export_kwh)),
           !.nem_balance = IF IsNone(nem_balance_kwh) THEN @ ELSE Clamp(Get(nem_balance_kwh))])

\* an argument that is None leaves its counter alone
set_values(tr, peak_kwh, offpeak_kwh, total_kwh, export_kwh, nem_balance_kwh) ==
    [tr EXCEPT
       !.peak_kwh    = IF IsNone(peak_kwh) THEN @ ELSE Clamp(Get(peak_kwh)),
       !.offpeak_kwh = IF IsNone(offpeak_kwh) THEN @ ELSE Clamp(Get(offpeak_kwh)),
       !.total_kwh   = IF IsNone(total_kwh) THEN @ ELSE Clamp(Get(total_kwh)),
       !.export_kwh  = IF IsNone(export_kwh) THEN @ ELSE Clamp(Get(export_kwh)),
       !.nem_balance = IF IsNone(nem_balance_kwh) THEN @ ELSE Clamp(Get(nem_balance_kwh))]

\* the set_energy_values service: data is the call data, a value or None
\* for each field; the handler reads four fields and passes them to
\* set_values
handle_set_energy_values(tr, data) ==
    set_values(tr, data.peak_kwh, data.offpeak_kwh, data.total_kwh, data.export_kwh, None)

----------------------------------------------------------------------------
(* Export offset of the bill derivation (calculations.py, coordinator.py) *)

\* variant: off-peak import is offset first
export_offset_offpeak_first(peak_kwh, offpeak_kwh, total_kwh, export_kwh, tariff_type) ==
    IF tariff_type = TARIFF_TOU
    THEN LET matched_offpeak == IF offpeak_kwh > 0 THEN Min(export_kwh, offpeak_kwh) ELSE 0
             remaining       == export_kwh - matched_offpeak
             matched_peak    == IF peak_kwh > 0 THEN Min(remaining, peak_kwh) ELSE 0
         IN  [ matched_offpeak |-> matched_offpeak,
               matched_peak    |-> matched_peak,
               excess_export   |-> remaining - matched_peak ]
    ELSE LET matched_total == IF total_kwh > 0 THEN Min(export_kwh, total_kwh) ELSE 0
         IN  [ matched_offpeak |-> 0,
               matched_peak    |-> matched_total,
               excess_export   |-> export_kwh - matched_total ]

\* the kWh matching of calculate_export_credit: peak first, then off-peak
\* (Time of Use), or against the total (Standard); the Standard match is
\* returned in the matched_peak slot
export_offset(peak_kwh, offpeak_kwh, total_kwh, export_kwh, tariff_type) ==
    IF tariff_type = TARIFF_TOU
    THEN LET matched_peak    == IF peak_kwh > 0 THEN Min(export_kwh, peak_kwh) ELSE 0
             remaining       == export_kwh - matched_peak
             matched_offpeak == IF offpeak_kwh > 0 THEN Min(remaining, offpeak_kwh) ELSE 0
         IN  [ matched_offpeak |-> matched_offpeak,
               matched_peak    |-> matched_peak,
               excess_export   |-> remaining - matched_offpeak ]
    ELSE LET matched_total == IF total_kwh > 0 THEN Min(export_kwh, total_kwh) ELSE 0
         IN  [ matched_offpeak |-> 0,
               matched_peak    |-> matched_total,
               excess_export   |-> export_kwh - matched_total ]

\* calculate_components offsets import with export_kwh + nem_balance
effective_export(tr) == tr.export_kwh + tr.nem_balance

components_offset(tr) ==
    export_offset(tr.peak_kwh, tr.offpeak_kwh, tr.total_kwh,
                  effective_export(tr), tr.tariff_type)

----------------------------------------------------------------------------
(* Python numbers (calculations.py, coordinator.py)                        *)
(*                                                                         *)
(* The engine keeps its counters as Decimal; the rate table is parsed JSON, *)
(* whose numbers are int or float.  Python's arithmetic refuses to mix      *)
(* Decimal with float and raises TypeError.  A number is a record of its    *)
(* type t and its value v * 10^-e, a decimal with e places after the point, *)
(* kept without trailing zeros, so that a whole number has e = 0 and v is   *)
(* its value.  Results carry at most six places; further places are cut.    *)
(* TypeError stands for the raised exception and absorbs every operation    *)
(* applied to it.                                                           *)

RECURSIVE Pow10(_)
Pow10(n) == IF n = 0 THEN 1 ELSE 10 * Pow10(n - 1)

\* v * 10^-e without trailing zeros after the point
RECURSIVE Strip(_, _)
Strip(v, e) ==
    IF e > 0 /\ v % 10 = 0 THEN Strip(v \div 10, e - 1) ELSE [v |-> v, e |-> e]

\* the number of type t and value v * 10^-e
Number(t, v, e) ==
    LET cut == IF e > 6 THEN Strip(v \div Pow10(e - 6), 6) ELSE Strip(v, e)
    IN  [v |-> cut.v, t |-> t, e |-> cut.e]

Decimal(v) == [v |-> v, t |-> "Decimal", e |-> 0]
Float(v) == [v |-> v, t |-> "float", e |-> 0]
Integer(v) == [v |-> v, t |-> "int", e |-> 0]
Dict == [v |-> 0, t |-> "dict", e |-> 0]
TypeError == [v |-> 0, t |-> "TypeError", e |-> 0]

\* the float with the decimal digits v, e of them after the point
FloatOf(v, e) == Number("float", v, e)

IsError(a) == a.t = "TypeError"

\* the digits of a with e places after the point, e at least a.e
Digits(a, e) == a.v * Pow10(e - a.e)

Less(a, b) == Digits(a, Max(a.e, b.e)) < Digits(b, Max(a.e, b.e))

\* type of a binary arithmetic operation on a and b
ResultType(a, b) ==
    IF IsError(a) \/ IsError(b) THEN "TypeError"
    ELSE IF "dict" \in {a.t, b.t} THEN "TypeError"
    ELSE IF {a.t, b.t} = {"Decimal", "float"} THEN "TypeError"
    ELSE IF "Decimal" \in {a.t, b.t} THEN "Decimal"
    ELSE IF "float" \in {a.t, b.t} THEN "float"
    ELSE "int"

Arith(a, b, v, e) ==
    IF ResultType(a, b) = "TypeError" THEN TypeError
    ELSE Number(ResultType(a, b), v, e)

Add(a, b) == Arith(a, b, Digits(a, Max(a.e, b.e)) + Digits(b, Max(a.e, b.e)), Max(a.e, b.e))
Sub(a, b) == Arith(a, b, Digits(a, Max(a.e, b.e)) - Digits(b, Max(a.e, b.e)), Max(a.e, b.e))
Mul(a, b) == Arith(a, b, a.v * b.v, a.e + b.e)

\* a / 100: true division, an int becomes a float
DivBy100(a) ==
    IF IsError(a) \/ a.t = "dict" THEN TypeError
    ELSE Number(IF a.t = "Decimal" THEN "Decimal" ELSE "float", a.v, a.e + 2)

\* a * (n / d) for whole numbers n, d of one type: the value is taken as
\* (a * n) / d, cut to the places of a
MulRatio(a, n, d) ==
    IF ResultType(a, n) = "TypeError" \/ ResultType(n, d) = "TypeError" THEN TypeError
    ELSE Number(ResultType(a, n), (a.v * n.v) \div d.v, a.e)

\* min(a, b) and max(a, b) return one of their arguments, the first on a tie
MinNum(a, b) == IF IsError(a) \/ IsError(b) THEN TypeError ELSE IF Less(b, a) THEN b ELSE a
MaxNum(a, b) == IF IsError(a) \/ IsError(b) THEN TypeError ELSE IF Less(a, b) THEN b ELSE a

\* round(a, 2): to the nearest hundredth, a tie to the even one
Round2(a) ==
    IF a.e <= 2 THEN a
    ELSE LET unit == Pow10(a.e - 2)
             q    == a.v \div unit
             r    == a.v % unit
             up   == 2 * r > unit \/ (2 * r = unit /\ q % 2 = 1)
         IN  Number(a.t, IF up THEN q + 1 ELSE q, 2)

----------------------------------------------------------------------------
(* Bill components (calculations.py) *)

\* calculate_energy_cost: the tier is selected by total usage
calculate_energy_cost(peak_kwh, offpeak_kwh, total_kwh, tariff, tariff_type) ==
    LET zero  == [ energy_cost |-> Float(0), peak_rate |-> Float(0),
                   offpeak_rate |-> Float(0), rate |-> Float(0) ]
        tiers == IF tariff_type = TARIFF_TOU THEN tariff.tou_tiers ELSE tariff.tiers
    IN  IF tiers = <<>> THEN zero
        ELSE LET selected_tier == Get(select_tier(total_kwh.v, tiers))
             IN  IF tariff_type = TARIFF_TOU
                 THEN [ zero EXCEPT
                          !.energy_cost =
                              Add(Mul(peak_kwh, DivBy100(selected_tier.peak_rate)),
                                  Mul(offpeak_kwh, DivBy100(selected_tier.offpeak_rate))),
                          !.peak_rate = selected_tier.peak_rate,
                          !.offpeak_rate = selected_tier.offpeak_rate ]
                 ELSE [ zero EXCEPT
                          !.energy_cost = Mul(total_kwh, DivBy100(selected_tier.rate)),
                          !.rate = selected_tier.rate ]

calculate_retail_charge(total_kwh, retail_config) ==
    IF total_kwh.v > retail_config.retail_waiver_limit
    THEN retail_config.retail
    ELSE Float(0)

\* the rate of the month of current_month_key, else the fallback rate
calculate_afa_charge(total_kwh, afa_config, current_month_key) ==
    IF total_kwh.v <= afa_config.waiver_limit THEN Float(0)
    ELSE LET listed   == { r \in afa_config.rates : r.month = current_month_key }
             afa_rate == IF listed = {} THEN afa_config.rate
                         ELSE (CHOOSE r \in listed : TRUE).rate
         IN  Mul(total_kwh, DivBy100(afa_rate))

calculate_eei_rebate(total_kwh, eei_config) ==
    IF total_kwh.v > eei_config.limit THEN Float(0)
    ELSE IF eei_config.tiers # <<>>
    THEN Mul(total_kwh, DivBy100(Get(select_tier(total_kwh.v, eei_config.tiers)).rate))
    ELSE Mul(total_kwh, DivBy100(eei_config.rate))

calculate_kwtbb_tax(total_kwh, base_bill, kwtbb_config) ==
    IF IsError(base_bill) THEN TypeError
    ELSE IF total_kwh.v > kwtbb_config.threshold
    THEN Mul(base_bill, DivBy100(kwtbb_config.rate))
    ELSE Float(0)

calculate_service_tax(total_kwh, base_bill, service_tax_config) ==
    IF IsError(base_bill) THEN TypeError
    ELSE IF total_kwh.v <= service_tax_config.exemption_limit \/ total_kwh.v = 0
    THEN Float(0)
    ELSE LET excess         == Sub(total_kwh, Integer(service_tax_config.exemption_limit))
             taxable_amount == MulRatio(base_bill, excess, total_kwh)
         IN  Mul(taxable_amount, DivBy100(service_tax_config.rate))

\* calculate_export_credit: the kWh matching of export_offset, carried out
\* on Python numbers, and the value of the matched energy
calculate_export_credit(peak_kwh, offpeak_kwh, total_kwh, export_kwh, peak_rate, offpeak_rate, variable_rate, tariff_type, rate, eei_rate) ==
    IF tariff_type = TARIFF_TOU
    THEN LET matched_peak    == IF peak_kwh.v > 0 THEN MinNum(export_kwh, peak_kwh)
                                ELSE Float(0)
             after_peak      == IF peak_kwh.v > 0 THEN Sub(export_kwh, matched_peak)
                                ELSE export_kwh
             matched_offpeak == IF offpeak_kwh.v > 0 THEN MinNum(after_peak, offpeak_kwh)
                                ELSE Float(0)
             excess_export   == IF offpeak_kwh.v > 0 THEN Sub(after_peak, matched_offpeak)
                                ELSE after_peak
         IN  [ matched_offpeak |-> matched_offpeak,
               matched_peak    |-> matched_peak,
               excess_export   |-> excess_export,
               credit_value |->
                   Add(Mul(matched_peak,
                           DivBy100(Add(Add(peak_rate, variable_rate), eei_rate))),
                       Mul(matched_offpeak,
                           DivBy100(Add(Add(offpeak_rate, variable_rate), eei_rate)))) ]
    ELSE LET matched_total == IF total_kwh.v > 0 THEN MinNum(export_kwh, total_kwh)
                              ELSE Float(0)
             excess_export == IF total_kwh.v > 0 THEN Sub(export_kwh, matched_total)
                              ELSE export_kwh
         IN  [ matched_offpeak |-> Float(0),
               matched_peak    |-> matched_total,
               excess_export   |-> excess_export,
               credit_value |->
                   Mul(matched_total, DivBy100(Add(Add(rate, variable_rate), eei_rate))) ]

----------------------------------------------------------------------------
(* Bill derivation (coordinator.py) *)

\* what a call hands back: the dict it returns, or the exception it raises
Yields(components) == [components |-> components, raised |-> FALSE]
Raises == [components |-> <<>>, raised |-> TRUE]

\* the component set returned when the snapshot or its tariff is missing
ZeroComponents ==
    [ import_cost |-> Float(0), export_credit |-> Float(0),
      excess_export_kwh |-> Float(0), net_bill |-> Float(0) ]

\* dt_util.now().strftime("%Y-%m")
MonthKey(t) == <<t.y, t.m>>

\* coordinator_data is None for a missing or empty snapshot; its tariff_a is
\* None when the section is missing or empty
calculate_components(tr, coordinator_data, current_time) ==
    IF IsNone(coordinator_data) THEN Yields(ZeroComponents)
    ELSE IF IsNone(Get(coordinator_data).tariff_a) THEN Yields(ZeroComponents)
    ELSE
    LET data       == Get(coordinator_data)
        tariff     == Get(data.tariff_a)
        charges    == tariff.charges
        afa        == data.afa
        eei        == data.eei
        tax_config == data.tax
        peak_kwh     == Decimal(tr.peak_kwh)
        offpeak_kwh  == Decimal(tr.offpeak_kwh)
        total_kwh    == Decimal(tr.total_kwh)
        export_kwh   == Decimal(tr.export_kwh)
        nem_balance  == Decimal(tr.nem_balance)
        total_import == IF tr.tariff_type = TARIFF_TOU
                        THEN Add(peak_kwh, offpeak_kwh)
                        ELSE total_kwh
        energy == calculate_energy_cost(peak_kwh, offpeak_kwh, total_import,
                                        tariff, tr.tariff_type)
        energy_cost   == energy.energy_cost
        capacity_rate == Number("Decimal", charges.capacity.v, charges.capacity.e)
        network_rate  == Number("Decimal", charges.network.v, charges.network.e)
        variable_rate == Add(capacity_rate, network_rate)
        capacity_charge == Mul(total_import, DivBy100(capacity_rate))
        network_charge  == Mul(total_import, DivBy100(network_rate))
        total_variable_cost == Add(capacity_charge, network_charge)
        retail_charge == calculate_retail_charge(total_import, charges)
        afa_cost   == calculate_afa_charge(total_import, afa, MonthKey(current_time))
        eei_rebate == calculate_eei_rebate(total_import, eei)
        kwtbb_base == Add(Add(energy_cost, total_variable_cost), eei_rebate)
        kwtbb_cost == calculate_kwtbb_tax(total_import, kwtbb_base, tax_config.kwtbb)
        base_bill_amount ==
            Add(Add(Add(Add(energy_cost, total_variable_cost), retail_charge),
                    afa_cost), eei_rebate)
        service_tax_cost == calculate_service_tax(total_import, base_bill_amount,
                                                  tax_config.service_tax)
        total_import_cost == Add(Add(base_bill_amount, kwtbb_cost), service_tax_cost)
        effective  == Add(export_kwh, nem_balance)
        \* the eei section itself is handed over as eei_rate
        credit == calculate_export_credit(peak_kwh, offpeak_kwh, total_kwh, effective,
                                          energy.peak_rate, energy.offpeak_rate,
                                          variable_rate, tr.tariff_type, energy.rate,
                                          Dict)
        components ==
            [ energy_cost       |-> energy_cost,
              import_cost       |-> total_import_cost,
              export_credit     |-> credit.credit_value,
              excess_export_kwh |-> credit.excess_export,
              net_bill          |-> MaxNum(Sub(total_import_cost, credit.credit_value),
                                           Decimal(0)),
              capacity_charge   |-> capacity_charge,
              network_charge    |-> network_charge,
              retail_charge     |-> retail_charge,
              afa_cost          |-> afa_cost,
              eei_rebate        |-> eei_rebate,
              service_tax       |-> service_tax_cost,
              kwtbb_tax         |-> kwtbb_cost ]
    IN  IF \E k \in DOMAIN components : IsError(components[k])
        THEN Raises
        ELSE Yields(components)

\* variant: the carried balance is used up by the call
components_engine_consuming(tr) == [tr EXCEPT !.nem_balance = 0]

\* the engine as calculate_components leaves it: the method assigns no
\* attribute of the engine
components_engine(tr) == tr

----------------------------------------------------------------------------
(* Energy sensor entities (sensor.py) *)

\* the entities async_setup_entry creates that restore into the engine
EnergySensors(tariff_type) ==
    IF tariff_type = TARIFF_TOU
    THEN {"total", "export", "peak", "offpeak"}
    ELSE {"total", "export"}

\* what the host's restore store returns for an entity: state is NoSample
\* when there is no stored state; iso is the last_reset_iso attribute, None
\* when it is missing, and iso_ok tells whether fromisoformat accepts it
LastState(state, iso, iso_ok) == [state |-> state, iso |-> iso, iso_ok |-> iso_ok]

restore_to_tracker(tr, sensor, value) ==
    IF sensor = "peak" THEN set_peak_kwh(tr, value)
    ELSE IF sensor = "offpeak" THEN set_offpeak_kwh(tr, value)
    ELSE IF sensor = "total" THEN set_total_kwh(tr, value)
    ELSE set_export_kwh(tr, value)

\* variant: only an entity that restored a stored number marks the engine
async_added_to_hass_stored_only(tr, sensor, last_state) ==
    IF last_state.state.kind = "none" THEN tr
    ELSE IF ~ IsNumeric(last_state.state) THEN tr
    ELSE LET valued == restore_to_tracker(tr, sensor, last_state.state.val)
             dated  == IF /\ sensor = "total"
                          /\ ~ IsNone(last_state.iso)
                          /\ last_state.iso_ok
                       THEN set_last_reset(valued, last_state.iso)
                       ELSE valued
         IN  mark_as_restored(reconcile_tou_total(dated))

async_added_to_hass(tr, sensor, last_state) ==
    LET restored_tr ==
            IF last_state.state.kind = "none" THEN tr
            ELSE IF ~ IsNumeric(last_state.state) THEN tr
            ELSE LET valued == restore_to_tracker(tr, sensor, last_state.state.val)
                     dated  == IF /\ sensor = "total"
                                  /\ ~ IsNone(last_state.iso)
                                  /\ last_state.iso_ok
                               THEN set_last_reset(valued, last_state.iso)
                               ELSE valued
                 IN  reconcile_tou_total(dated)
    IN  mark_as_restored(restored_tr)

----------------------------------------------------------------------------
(* Bill sensor entities (sensor.py) *)

\* what a property of an entity hands to the host: None, a value, or the
\* exception that escapes the getter
Absent == [kind |-> "None"]
Published(v) == [v |-> v, kind |-> "value"]
Failed == [kind |-> "raises"]

IsNumber(p) == p.kind = "value"

\* float(round(components.get(key, 0.0), 2))
component_float(components, key) ==
    IF key \in DOMAIN components
    THEN [Round2(components[key]) EXCEPT !.t = "float"]
    ELSE Float(0)

\* the component each bill-derived sensor publishes as its state
BillSensors ==
    [ Bill |-> "net_bill", ImportCost |-> "import_cost",
      ExportCredit |-> "export_credit", ExcessExport |-> "excess_export_kwh" ]

\* native_value of the Bill, Import Cost, Export Credit and Excess Export
\* sensors
native_value(tr, sensor, coordinator_data, current_time) ==
    IF ~ is_restored(tr) THEN Absent
    ELSE LET result == calculate_components(tr, coordinator_data, current_time)
         IN  IF result.raised THEN Failed
             ELSE Published(component_float(result.components, BillSensors[sensor]))

\* extra_state_attributes of the Bill sensor: the cost breakdown and the
\* last reset
extra_state_attributes(tr, coordinator_data, current_time) ==
    LET attributes(result) ==
            IF result.raised THEN Failed
            ELSE Published(
               [ last_reset          |-> tr.last_reset,
                 energy_cost         |-> component_float(result.components, "energy_cost"),
                 capacity_charge     |-> component_float(result.components, "capacity_charge"),
                 network_charge      |-> component_float(result.components, "network_charge"),
                 retail_charge       |-> component_float(result.components, "retail_charge"),
                 afa_cost            |-> component_float(result.components, "afa_cost"),
                 eei_rebate          |-> component_float(result.components, "eei_rebate"),
                 service_tax         |-> component_float(result.components, "service_tax"),
                 total_import_cost   |-> component_float(result.components, "import_cost"),
                 kwtbb_tax           |-> component_float(result.components, "kwtbb_tax"),
                 total_export_credit |-> component_float(result.components, "export_credit") ])
    \* _get_components() is called once per read
    IN  CHOOSE out \in { attributes(result) :
                           result \in {calculate_components(tr, coordinator_data, current_time)} } : TRUE

----------------------------------------------------------------------------
(* State machine *)

Call(op, new_state, old_state, ret, rolled) ==
    [out |-> <<>>, op |-> op, ret |-> ret, rolled |-> rolled, new |-> new_state,
     old |-> old_state, args |-> <<>>]

\* a call with no sample arguments, no return value and no rollover check
Plain(op) == Call(op, NoSample, NoSample, FALSE, "skipped")

\* a call of that kind whose arguments are kept, each one an option value
PlainWith(op, args) == [Plain(op) EXCEPT !.args = args]

\* a call of a function: its arguments and the value it returns
Returned(op, args, out) == [Plain(op) EXCEPT !.args = args, !.out = out]

WithinCaps(tr) ==
    /\ tr.peak_kwh <= MaxKwh /\ tr.offpeak_kwh <= MaxKwh
    /\ tr.total_kwh <= 2 * MaxKwh /\ tr.export_kwh <= MaxKwh
    /\ tr.nem_balance <= MaxNem
    /\ tr.restored_sensors <= MaxCalls

InitWith(billing_days, tariffs) ==
    /\ tracker \in { NewTracker(b, t) : b \in billing_days, t \in tariffs }
    /\ now = FirstTime
    /\ added = {}
    /\ call = Plain("init")

Tick(t) ==
    /\ Before(now, t)
    /\ now' = t
    /\ call' = Plain("tick")
    /\ UNCHANGED <<tracker, added>>

SetExpectedSensorCount(count) ==
    /\ tracker' = set_expected_sensor_count(tracker, count)
    /\ call' = Plain("set_expected_sensor_count")
    /\ UNCHANGED <<now, added>>

SetPeakKwh(value) ==
    /\ tracker' = set_peak_kwh(tracker, value)
    /\ call' = Plain("set_peak_kwh")
    /\ UNCHANGED <<now, added>>

SetOffpeakKwh(value) ==
    /\ tracker' = set_offpeak_kwh(tracker, value)
    /\ call' = Plain("set_offpeak_kwh")
    /\ UNCHANGED <<now, added>>

SetTotalKwh(value) ==
    /\ tracker' = set_total_kwh(tracker, value)
    /\ call' = Plain("set_total_kwh")
    /\ UNCHANGED <<now, added>>

SetExportKwh(value) ==
    /\ tracker' = set_export_kwh(tracker, value)
    /\ call' = Plain("set_export_kwh")
    /\ UNCHANGED <<now, added>>

SetNemBalanceKwh(value) ==
    /\ tracker' = set_nem_balance_kwh(tracker, value)
    /\ call' = PlainWith("set_nem_balance_kwh", <<Some(value)>>)
    /\ UNCHANGED <<now, added>>

SetLastReset(t) ==
    /\ tracker' = set_last_reset(tracker, Some(t))
    /\ call' = Plain("set_last_reset")
    /\ UNCHANGED <<now, added>>

RestoreState(peak_kwh, offpeak_kwh, total_kwh, export_kwh, t) ==
    /\ tracker' = restore_state(tracker, peak_kwh, offpeak_kwh, total_kwh, export_kwh, Some(t))
    /\ call' = PlainWith("restore_state",
                          <<peak_kwh, offpeak_kwh, total_kwh, export_kwh, t>>)
    /\ UNCHANGED <<now, added>>

RegisterSensorRestored ==
    /\ WithinCaps(register_sensor_restored(tracker, now))
    /\ tracker' = register_sensor_restored(tracker, now)
    /\ call' = Call("register_sensor_restored", NoSample, NoSample,
                    register_completes(tracker), register_reset_branch(tracker, now))
    /\ UNCHANGED <<now, added>>

MarkAsRestored ==
    /\ tracker' = mark_as_restored(tracker)
    /\ call' = Plain("mark_as_restored")
    /\ UNCHANGED <<now, added>>

AsyncAddedToHass(sensor, last_state) ==
    /\ sensor \in EnergySensors(tracker.tariff_type) \ added
    /\ tracker' = async_added_to_hass(tracker, sensor, last_state)
    /\ added' = added \cup {sensor}
    /\ call' = Plain("async_added_to_hass")
    /\ UNCHANGED now

HandleImportChange(new_state, old_state) ==
    /\ WithinCaps(handle_import_change(tracker, new_state, old_state, now))
    /\ tracker' = handle_import_change(tracker, new_state, old_state, now)
    /\ call' = Call("handle_import_change", new_state, old_state,
                    handle_change_returns(new_state, old_state),
                    ingest_reset_branch(tracker, new_state, old_state, now))
    /\ UNCHANGED <<now, added>>

HandleExportChange(new_state, old_state) ==
    /\ WithinCaps(handle_export_change(tracker, new_state, old_state, now))
    /\ tracker' = handle_export_change(tracker, new_state, old_state, now)
    /\ call' = Call("handle_export_change", new_state, old_state,
                    handle_change_returns(new_state, old_state),
                    ingest_reset_branch(tracker, new_state, old_state, now))
    /\ UNCHANGED <<now, added>>

SetValues(peak_kwh, offpeak_kwh, total_kwh, export_kwh, nem_balance_kwh) ==
    /\ tracker' = set_values(tracker, peak_kwh, offpeak_kwh, total_kwh,
                             export_kwh, nem_balance_kwh)
    /\ call' = PlainWith("set_values",
                          <<peak_kwh, offpeak_kwh, total_kwh, export_kwh, nem_balance_kwh>>)
    /\ UNCHANGED <<now, added>>

SetEnergyValuesService(data) ==
    /\ tracker' = handle_set_energy_values(tracker, data)
    /\ call' = PlainWith("set_energy_values",
                          << data.peak_kwh, data.offpeak_kwh, data.total_kwh,
                             data.export_kwh, data.nem_balance_kwh >>)
    /\ UNCHANGED <<now, added>>

\* the pure functions of calculations.py, called on their own
SelectTier(total_kwh, tiers) ==
    /\ call' = Returned("select_tier", <<total_kwh, tiers>>, select_tier(total_kwh, tiers))
    /\ UNCHANGED <<tracker, now, added>>

IsPeakTime(current_time, tou_config) ==
    /\ call' = Returned("is_peak_time", <<current_time, tou_config>>,
                        is_peak_time(current_time, tou_config))
    /\ UNCHANGED <<tracker, now, added>>

CalculateExportCredit(peak_kwh, offpeak_kwh, total_kwh, export_kwh, tariff_type) ==
    /\ call' = Returned("calculate_export_credit",
                        <<peak_kwh, offpeak_kwh, total_kwh, export_kwh, tariff_type>>,
                        export_offset(peak_kwh, offpeak_kwh, total_kwh, export_kwh,
                                      tariff_type))
    /\ UNCHANGED <<tracker, now, added>>

CalculateKwtbbTax(total_kwh, base_bill, kwtbb_config) ==
    /\ call' = Returned("calculate_kwtbb_tax", <<total_kwh, base_bill, kwtbb_config>>,
                        calculate_kwtbb_tax(total_kwh, base_bill, kwtbb_config))
    /\ UNCHANGED <<tracker, now, added>>

CalculateServiceTax(total_kwh, base_bill, service_tax_config) ==
    /\ call' = Returned("calculate_service_tax",
                        <<total_kwh, base_bill, service_tax_config>>,
                        calculate_service_tax(total_kwh, base_bill, service_tax_config))
    /\ UNCHANGED <<tracker, now, added>>

\* the bill derivation, called on the snapshot the coordinator holds
CalculateComponents(coordinator_data) ==
    /\ tracker' = components_engine(tracker)
    /\ call' = Returned("calculate_components", <<coordinator_data>>,
                        calculate_components(tracker, coordinator_data, now))
    /\ UNCHANGED <<now, added>>

\* the host reads the state of a bill-derived sensor
NativeValue(sensor, coordinator_data) ==
    /\ tracker' = components_engine(tracker)
    /\ call' = Returned("native_value", <<sensor, coordinator_data>>,
                        native_value(tracker, sensor, coordinator_data, now))
    /\ UNCHANGED <<now, added>>

\* the host reads the attributes of the Bill sensor
ExtraStateAttributes(coordinator_data) ==
    /\ tracker' = components_engine(tracker)
    /\ call' = Returned("extra_state_attributes", <<coordinator_data>>,
                        extra_state_attributes(tracker, coordinator_data, now))
    /\ UNCHANGED <<now, added>>

----------------------------------------------------------------------------
(* Inputs *)

BillingDays == {1, 15}
Tariffs == {TARIFF_STANDARD, TARIFF_TOU}

\* async_setup_entry (__init__.py): the engine is constructed and told how
\* many sensors will restore, 5 for Time of Use and 3 for Standard
ExpectedSensors(tariff_type) == IF tariff_type = TARIFF_TOU THEN 5 ELSE 3

SetupEntry(billing_day, tariff_type) ==
    set_expected_sensor_count(NewTracker(billing_day, tariff_type),
                              ExpectedSensors(tariff_type))

InitSetup(billing_days, tariffs) ==
    /\ tracker \in { SetupEntry(b, t) : b \in billing_days, t \in tariffs }
    /\ now = FirstTime
    /\ added = {}
    /\ call = Plain("init")

\* raw meter readings: one below the reset threshold, one on it, one above
Readings == {2, 10, 11}
Samples == { NoSample, Sample(STATE_UNAVAILABLE, 0), Sample(STATE_UNKNOWN, 0),
             Sample("text", 2) }
               \cup { Num(v) : v \in Readings }

\* a meter that only counts up by one
StepSamples == { Num(10), Num(11) }

----------------------------------------------------------------------------
(* Billing: a restored engine fed by the two meters while the clock runs *)

NextBilling ==
    \/ MarkAsRestored
    \/ \E n \in StepSamples, o \in StepSamples : HandleImportChange(n, o)
    \/ \E n \in StepSamples, o \in StepSamples : HandleExportChange(n, o)
    \/ \E t \in Times : Tick(t)

SpecBilling == InitSetup(BillingDays, Tariffs) /\ [][NextBilling]_vars

----------------------------------------------------------------------------
(* Restoration: the engine after setup, driven through the restoration     *)
(* interface while the two meters deliver samples and the clock runs       *)

\* the instants the clock moves to, and the values a stored last_reset takes
RestoreTimes == { DT(2025, 1, 10, 16, 0), DT(2025, 1, 15, 0, 0), DT(2025, 1, 20, 16, 0) }
StoredTimes == { DT(2024, 12, 10, 16, 0), DT(2025, 1, 10, 16, 0) }

NextRestore ==
    \/ SetPeakKwh(2)
    \/ SetOffpeakKwh(1)
    \/ SetTotalKwh(1)
    \/ SetExportKwh(3)
    \/ SetNemBalanceKwh(1)
    \/ \E t \in StoredTimes : SetLastReset(t)
    \/ \E t \in StoredTimes : RestoreState(2, 1, 1, 3, t)
    \/ SetValues(Some(2), None, Some(1), Some(3), None)
    \/ RegisterSensorRestored
    \/ HandleImportChange(Num(11), Num(10))
    \/ HandleExportChange(Num(11), Num(10))
    \/ \E t \in RestoreTimes : Tick(t)

SpecRestore == InitSetup({15}, Tariffs) /\ [][NextRestore]_vars

----------------------------------------------------------------------------
(* Entities: the integration as it runs: after setup the host adds the     *)
(* energy sensor entities, each restoring its stored state into the engine, *)
(* while the two meters deliver samples and the clock runs                  *)

\* what the restore store can hold for an entity
StoredStates ==
    { LastState(NoSample, None, TRUE),
      LastState(Sample(STATE_UNKNOWN, 0), None, TRUE),
      LastState(Num(1), None, TRUE),
      LastState(Num(1), Some(DT(2024, 12, 10, 16, 0)), TRUE),
      LastState(Num(1), Some(DT(2024, 12, 10, 16, 0)), FALSE) }

NextEntities ==
    \/ \E sensor \in EnergySensors(TARIFF_TOU), ls \in StoredStates :
           AsyncAddedToHass(sensor, ls)
    \/ HandleImportChange(Num(11), Num(10))
    \/ HandleExportChange(Num(11), Num(10))
    \/ \E t \in RestoreTimes : Tick(t)

SpecEntities == InitSetup({15}, Tariffs) /\ [][NextEntities]_vars

\* the host adds every entity that async_setup_entry handed to
\* async_add_entities: an entity still to be added is eventually added
AddEntity ==
    \E sensor \in EnergySensors(TARIFF_TOU), ls \in StoredStates :
        AsyncAddedToHass(sensor, ls)

SpecEntitiesFair ==
    InitSetup({15}, Tariffs) /\ [][NextEntities]_vars /\ WF_vars(AddEntity)

----------------------------------------------------------------------------
(* Ingestion: a restored or not yet restored engine fed arbitrary samples  *)

IngestTimes == { DT(2025, 1, 20, 16, 0) }

NextIngest ==
    \/ MarkAsRestored
    \/ \E n \in Samples, o \in Samples : HandleImportChange(n, o)
    \/ \E n \in Samples, o \in Samples : HandleExportChange(n, o)
    \/ \E t \in IngestTimes : Tick(t)

SpecIngest == InitSetup({15}, Tariffs) /\ [][NextIngest]_vars

----------------------------------------------------------------------------
(* Correction: a restored engine whose restoration and correction interface *)
(* is called with arbitrary numbers, while the two meters deliver samples   *)
(* and the clock runs                                                       *)

\* arguments below and above the range [0, 100000]
Amounts == { 0 - 1, MAX_KWH_LIMIT + 1 }

\* the argument lists of set_values: one counter, several, all, none
SetValuesArgs ==
    { <<Some(0 - 1), None, None, None, None>>,
      <<None, Some(MAX_KWH_LIMIT + 1), None, None, None>>,
      <<None, None, Some(2), None, None>>,
      <<None, None, None, Some(0 - 1), Some(MAX_KWH_LIMIT + 1)>>,
      <<Some(2), Some(1), Some(2), Some(3), Some(0 - 1)>>,
      <<None, None, None, None, None>> }

CorrectionTimes == { DT(2025, 1, 20, 16, 0) }

NextCorrection ==
    \/ MarkAsRestored
    \/ \E v \in Amounts : SetPeakKwh(v)
    \/ \E v \in Amounts : SetOffpeakKwh(v)
    \/ \E v \in Amounts : SetTotalKwh(v)
    \/ \E v \in Amounts : SetExportKwh(v)
    \/ \E v \in Amounts : SetNemBalanceKwh(v)
    \/ \E t \in StoredTimes : SetLastReset(t)
    \/ \E v \in Amounts, w \in Amounts, t \in StoredTimes : RestoreState(v, w, v, w, t)
    \/ \E a \in SetValuesArgs : SetValues(a[1], a[2], a[3], a[4], a[5])
    \/ HandleImportChange(Num(11), Num(10))
    \/ HandleExportChange(Num(11), Num(10))
    \/ \E t \in CorrectionTimes : Tick(t)

SpecCorrection == InitSetup({15}, {TARIFF_TOU}) /\ [][NextCorrection]_vars

----------------------------------------------------------------------------
(* Calculations: the pure functions applied to inputs of every shape *)

\* tier lists of up to three tiers; the rate tells the tiers of a list apart
TierLimits == {1, 2, 3}
Tier(limit, rate) == [limit |-> limit, rate |-> rate]
TierLists ==
    { <<>> }
      \cup { << Tier(a, 10) >> : a \in TierLimits }
      \cup { << Tier(a, 10), Tier(b, 20) >> : a \in TierLimits, b \in TierLimits }
      \cup { << Tier(a, 10), Tier(b, 20), Tier(c, 30) >> :
                 a \in TierLimits, b \in TierLimits, c \in TierLimits }
Usages == 0..4

\* a Friday, a Saturday, a Sunday, a Monday and New Year's Day 2025 (a
\* Wednesday), each at the edges of the peak windows and inside them
ClassifyDays == { DT(2025, 1, 10, 0, 0), DT(2025, 1, 11, 0, 0), DT(2025, 1, 12, 0, 0),
                  DT(2025, 1, 13, 0, 0), DT(2025, 1, 1, 0, 0) }
ClassifyClock == { <<0, 0>>, <<13, 59>>, <<14, 0>>, <<14, 30>>, <<16, 0>>,
                   <<21, 30>>, <<21, 59>>, <<22, 0>> }
ClassifyTimes == { [day EXCEPT !.hh = c[1], !.mm = c[2]] : day \in ClassifyDays, c \in ClassifyClock }

\* Time of Use schedules: parsable or not, two peak windows, weekends
\* off-peak or not, with and without a public holiday
TouConfigs ==
    { [ parse_ok           |-> ok,
        peak_start         |-> w[1],
        peak_end           |-> w[2],
        weekend_is_offpeak |-> we,
        public_holidays    |-> hs ] :
      ok \in BOOLEAN,
      w \in { << [hh |-> 14, mm |-> 0],  [hh |-> 22, mm |-> 0] >>,
              << [hh |-> 14, mm |-> 30], [hh |-> 21, mm |-> 30] >> },
      we \in BOOLEAN,
      hs \in { {}, { [y |-> 2025, m |-> 1, d |-> 1] } } }

\* the taxes, called as the unit tests call them: usage and base bill as
\* floats
BaseBills == { Float(0 - 50), Float(0), Float(100), Float(300) }
KwtbbConfigs == { [rate |-> Float(r), threshold |-> th] : th \in {1, 3}, r \in {100, 200} }
ServiceTaxConfigs ==
    { [rate |-> Float(r), exemption_limit |-> l] : l \in {0, 2}, r \in {100, 200} }

NextCalc ==
    \/ \E u \in Usages, b \in BaseBills, cfg \in KwtbbConfigs :
           CalculateKwtbbTax(Float(u), b, cfg)
    \/ \E u \in Usages, b \in BaseBills, cfg \in ServiceTaxConfigs :
           CalculateServiceTax(Float(u), b, cfg)
    \/ \E u \in Usages, tiers \in TierLists : SelectTier(u, tiers)
    \/ \E t \in ClassifyTimes, cfg \in TouConfigs : IsPeakTime(t, cfg)
    \/ \E p \in 0..MaxKwh, o \in 0..MaxKwh, e \in 0..MaxNem, tariff \in Tariffs :
           CalculateExportCredit(p, o, p + o, e, tariff)

SpecCalc == InitSetup({15}, {TARIFF_TOU}) /\ [][NextCalc]_vars

\* Bill: the bill derivation and the bill-derived sensors, over engines with
\* corrected counters, before and after restoration, and over rate-table
\* snapshots: missing, without tariff, with float rates, with int rates,
\* without tiers; the AFA and EEI rates include negative ones
RateTier(limit, rate) == [limit |-> limit, rate |-> rate]
TouTier(limit, peak_rate, offpeak_rate) ==
    [limit |-> limit, peak_rate |-> peak_rate, offpeak_rate |-> offpeak_rate]

Charges ==
    [ retail_waiver_limit |-> 2, retail |-> Float(10),
      capacity |-> Float(100), network |-> Integer(100) ]

TariffTables ==
    { [ tiers     |-> << RateTier(2, Float(200)), RateTier(4, Float(300)) >>,
        tou_tiers |-> << TouTier(2, Float(300), Float(200)),
                         TouTier(4, Float(400), Float(300)) >>,
        charges   |-> Charges ],
      [ tiers     |-> << RateTier(2, Integer(200)) >>,
        tou_tiers |-> << TouTier(2, Integer(300), Integer(200)) >>,
        charges   |-> Charges ],
      [ tiers |-> <<>>, tou_tiers |-> <<>>, charges |-> Charges ] }

AfaConfigs ==
    { [ rate |-> Float(100), waiver_limit |-> 1,
        rates |-> { [rate |-> Float(0 - 100), month |-> <<2025, 1>>] } ] }

EeiConfigs ==
    { [ tiers |-> <<>>, limit |-> 3, rate |-> Float(0 - 100) ],
      [ tiers |-> << RateTier(1, Float(0 - 200)) >>, limit |-> 0, rate |-> Integer(0) ] }

TaxConfigs ==
    { [ kwtbb       |-> [rate |-> Float(100), threshold |-> 1],
        service_tax |-> [rate |-> Float(100), exemption_limit |-> 2] ] }

Snapshots ==
    {None} \cup
    { Some([tariff_a |-> ta, afa |-> afa, eei |-> eei, tax |-> tax]) :
        ta \in {None} \cup { Some(t) : t \in TariffTables },
        afa \in AfaConfigs, eei \in EeiConfigs, tax \in TaxConfigs }

BillValues ==
    { << Some(p), Some(o), Some(p + o), Some(e), Some(n) >> :
        p \in {0, 2}, o \in {0, 1}, e \in {0, 2}, n \in {0, 1} }

BillTimes == { DT(2025, 1, 10, 16, 0) }

NextBill ==
    \/ \E t \in BillTimes : Tick(t)
    \/ MarkAsRestored
    \/ \E v \in BillValues : SetValues(v[1], v[2], v[3], v[4], v[5])
    \/ \E data \in Snapshots : CalculateComponents(data)
    \/ \E sensor \in DOMAIN BillSensors, data \in Snapshots : NativeValue(sensor, data)
    \/ \E data \in Snapshots : ExtraStateAttributes(data)

SpecBill == InitSetup({15}, Tariffs) /\ [][NextBill]_vars

\* Example: the bill of January 2025: peak 160 kWh, offpeak 798 kWh, export
\* 504 kWh, rates 28.52 / 24.43 sen, capacity 4.55, network 12.85, retail
\* RM10, AFA -6.5 sen, EEI -0.5 sen, service tax 8% above 600 kWh,
\* consumption tax 1.6% above 300 kWh
ExampleTariff ==
    [ tiers     |-> <<>>,
      tou_tiers |-> << TouTier(200, FloatOf(2852, 2), FloatOf(2443, 2)),
                       TouTier(900, FloatOf(2852, 2), FloatOf(2443, 2)),
                       TouTier(1500, FloatOf(2852, 2), FloatOf(2443, 2)),
                       TouTier(999999, FloatOf(2852, 2), FloatOf(2443, 2)) >>,
      charges   |-> [ retail_waiver_limit |-> 600, retail |-> Float(10),
                      capacity |-> FloatOf(455, 2), network |-> FloatOf(1285, 2) ] ]

ExampleKwtbb == [rate |-> FloatOf(16, 1), threshold |-> 300]
ExampleServiceTax == [rate |-> Float(8), exemption_limit |-> 600]

ExampleSnapshot ==
    Some([ tariff_a |-> Some(ExampleTariff),
           afa |-> [ rate |-> Float(0), waiver_limit |-> 600,
                     rates |-> { [rate |-> FloatOf(0 - 65, 1), month |-> <<2025, 1>>] } ],
           eei |-> [ tiers |-> <<>>, limit |-> 1000, rate |-> FloatOf(0 - 5, 1) ],
           tax |-> [ kwtbb |-> ExampleKwtbb, service_tax |-> ExampleServiceTax ] ])

ExampleValues ==
    { << Some(160), Some(798), Some(958), Some(504), Some(0) >>,
      << Some(160), Some(798), Some(958), Some(0), Some(0) >>,
      << Some(0), Some(0), Some(0), Some(504), Some(0) >> }

\* usages and bases the taxes are called with on their own: the example's
\* 958 kWh with its base bill 350.2154 and its consumption tax base 402.4854
ExampleUsages == { 300, 600, 958 }
ExampleBases == { FloatOf(3502154, 4), FloatOf(4024854, 4) }

NextExample ==
    \/ \E t \in BillTimes : Tick(t)
    \/ MarkAsRestored
    \/ \E v \in ExampleValues : SetValues(v[1], v[2], v[3], v[4], v[5])
    \/ CalculateComponents(ExampleSnapshot)
    \/ \E sensor \in DOMAIN BillSensors : NativeValue(sensor, ExampleSnapshot)
    \/ \E u \in ExampleUsages, b \in ExampleBases : CalculateKwtbbTax(Float(u), b, ExampleKwtbb)
    \/ \E u \in ExampleUsages, b \in ExampleBases :
           CalculateServiceTax(Float(u), b, ExampleServiceTax)

SpecExample == InitSetup({15}, Tariffs) /\ [][NextExample]_vars

\* Meter: the host delivers the state changes of one meter entity in a
\* chain: the old state of an event is the new state of the event before,
\* and None for the first event; the meter reads 11, 12 or 13, restarts at 2
\* or is unavailable
MeterSamples == { Sample(STATE_UNAVAILABLE, 0), Num(2), Num(11), Num(12), Num(13) }

\* the state the host delivered last for the entity that handler op listens to
LastDelivered(op) == IF call.op = op THEN call.new ELSE NoSample

\* no event of the other entity has been delivered
ChainOf(op) == call.op \in {"init", "mark_as_restored", op}

\* restoration is marked complete before the first event
MarkedBeforeEvents == call.op = "init" /\ MarkAsRestored

\* the import (export) meter entity changes its state to s
ImportMeterChanges(s) ==
    /\ ChainOf("handle_import_change")
    /\ s # LastDelivered("handle_import_change")
    /\ HandleImportChange(s, LastDelivered("handle_import_change"))

ExportMeterChanges(s) ==
    /\ ChainOf("handle_export_change")
    /\ s # LastDelivered("handle_export_change")
    /\ HandleExportChange(s, LastDelivered("handle_export_change"))

NextMeter ==
    \/ MarkedBeforeEvents
    \/ \E s \in MeterSamples : ImportMeterChanges(s)
    \/ \E s \in MeterSamples : ExportMeterChanges(s)

SpecMeter == InitSetup({15}, Tariffs) /\ [][NextMeter]_vars

\* Service: the manual-override service called with every combination of
\* absent, valid and excessive values, on engines before and after
\* restoration
ServiceValues == { None, Some(1), Some(MAX_KWH_LIMIT + 1) }

ServiceData ==
    [ peak_kwh : ServiceValues, offpeak_kwh : ServiceValues, total_kwh : ServiceValues,
      export_kwh : ServiceValues, nem_balance_kwh : ServiceValues ]

NextService ==
    \/ MarkAsRestored
    \/ SetNemBalanceKwh(2)
    \/ \E data \in ServiceData : SetEnergyValuesService(data)

SpecService == InitSetup({15}, Tariffs) /\ [][NextService]_vars

----------------------------------------------------------------------------
(* Vocabulary of the properties *)

\* the step just taken ran _check_reset / performed a rollover in it
Checked == call.rolled # "skipped"
Rolled == call.rolled \in {"carry", "forfeit"}

\* import of the period as the rollover reads it
ImportOf(tr) ==
    IF tr.tariff_type = TARIFF_TOU THEN tr.peak_kwh + tr.offpeak_kwh ELSE tr.total_kwh

\* last_reset lies before January 1st 00:00 of the year of the clock
CrossesJan1 ==
    /\ ~ IsNone(tracker.last_reset)
    /\ Before(Get(tracker.last_reset), DT(now.y, 1, 1, 0, 0))
    /\ ~ Before(now, DT(now.y, 1, 1, 0, 0))

\* start of the billing period that contains the clock
PeriodStartNow ==
    LET b == tracker.billing_day
    IN  IF now.d >= b THEN DT(now.y, now.m, b, 0, 0)
        ELSE IF now.m = 1 THEN DT(now.y - 1, 12, b, 0, 0)
        ELSE DT(now.y, now.m - 1, b, 0, 0)

\* a rollover is due: last_reset is present and strictly before the period start
RolloverDue ==
    /\ ~ IsNone(tracker.last_reset)
    /\ Before(Get(tracker.last_reset), PeriodStartNow)

Counters(tr) ==
    [ total_kwh |-> tr.total_kwh, peak_kwh |-> tr.peak_kwh,
      offpeak_kwh |-> tr.offpeak_kwh, export_kwh |-> tr.export_kwh ]

ZeroCounters == [ total_kwh |-> 0, peak_kwh |-> 0, offpeak_kwh |-> 0, export_kwh |-> 0 ]

\* the delta of the sample of call c, for a sample that was ingested
IngestedDelta(c) == IF c.new.val < c.old.val THEN c.new.val ELSE c.new.val - c.old.val

\* the counters after the step are the counters base with d kWh added to
\* the bucket that receives the sample of the step, if the step is an ingestion
AccumulatedBy(base, d) ==
    LET aft == Counters(tracker')
    IN  IF call'.op = "handle_export_change"
        THEN aft = [base EXCEPT !.export_kwh = @ + d]
        ELSE IF call'.op = "handle_import_change" /\ tracker.tariff_type = TARIFF_STANDARD
        THEN aft = [base EXCEPT !.total_kwh = @ + d]
        ELSE IF call'.op = "handle_import_change"
        THEN /\ aft.export_kwh = base.export_kwh
             /\ \/ aft.peak_kwh = base.peak_kwh + d /\ aft.offpeak_kwh = base.offpeak_kwh
                \/ aft.peak_kwh = base.peak_kwh /\ aft.offpeak_kwh = base.offpeak_kwh + d
             /\ aft.total_kwh = aft.peak_kwh + aft.offpeak_kwh
        ELSE aft = base

AccumulatedOnto(base) == AccumulatedBy(base, IngestedDelta(call'))

IsIngestion(c) == c.op \in {"handle_import_change", "handle_export_change"}

\* the sample of call c is a numeric pair
NumericPair(c) == IsIngestion(c) /\ c.new.kind = "num" /\ c.old.kind = "num"

----------------------------------------------------------------------------
(* Billing-cycle rollover *)

\* C2: a rollover that does not cross a January 1st adds the excess export
\* of the closing period, max(0, export - import), to the NEM balance.
C2_RolloverCarriesExcess ==
    [][ (Rolled' /\ ~ CrossesJan1) =>
            tracker'.nem_balance =
                tracker.nem_balance + Max(0, tracker.export_kwh - ImportOf(tracker)) ]_vars

C2_Witness == call.rolled = "carry" /\ tracker.nem_balance > 0

\* C3: a rollover zeroes the NEM balance exactly when it crosses a January
\* 1st; a rollover inside one calendar year never loses a positive balance.
C3_AnnualForfeiture ==
    [][ Rolled' =>
            /\ (call'.rolled = "forfeit") <=> CrossesJan1
            /\ CrossesJan1 => tracker'.nem_balance = 0
            /\ ~ CrossesJan1 => tracker'.nem_balance >= tracker.nem_balance ]_vars

C3_Witness == call.rolled = "forfeit" /\ tracker.nem_balance = 0 /\ now.y = 2025

\* kWh of the carried balance that the bill of the closing period matched
\* against import: what was matched beyond the period's own export
MatchedFromBalance ==
    LET off == components_offset(tracker)
    IN  Max(0, off.matched_peak + off.matched_offpeak - Max(0, tracker.export_kwh))

C5_RolloverCondition ==
    [][ Checked' =>
            /\ Rolled' <=> RolloverDue
            /\ RolloverDue =>
                   /\ tracker'.last_reset = Some(now)
                   /\ AccumulatedOnto(ZeroCounters)
            /\ ~ RolloverDue =>
                   /\ tracker'.nem_balance = tracker.nem_balance
                   /\ AccumulatedOnto(Counters(tracker))
                   /\ tracker'.last_reset =
                         IF IsNone(tracker.last_reset) THEN Some(now) ELSE tracker.last_reset ]_vars

C5_Witness ==
    /\ call.rolled = "none"
    /\ tracker.last_reset = Some(PeriodStartNow)
    /\ Before(PeriodStartNow, now)

\* C6: every rollover zeroes the four counters, so that after the step only
\* the delta that triggered it is in its bucket, and sets last_reset = now.
C6_RolloverZeroes ==
    [][ Rolled' => /\ tracker'.last_reset = Some(now)
                   /\ now' = now
                   /\ AccumulatedOnto(ZeroCounters) ]_vars

C6_Witness == Rolled /\ tracker.last_reset = Some(now) /\ tracker.nem_balance > 0

----------------------------------------------------------------------------
(* Restoration protocol *)

\* C1: until register_sensor_restored() has been called expected_sensor_count
\* times, is_restored() is false.
C1_RestorationGating ==
    tracker.restored_sensors < tracker.expected_sensors => ~ is_restored(tracker)

\* C10: of the register_sensor_restored() calls exactly the one on which the
\* count reaches expected_sensor_count runs the completion step and returns
\* true; every other call returns false and only counts.
C10_CompletesExactlyOnce ==
    [][ call'.op = "register_sensor_restored" =>
            IF tracker.restored_sensors + 1 = tracker.expected_sensors
            THEN call'.ret /\ tracker'.fully_restored
            ELSE /\ ~ call'.ret
                 /\ tracker' = [tracker EXCEPT !.restored_sensors = @ + 1] ]_vars

\* the step is the register_sensor_restored() call on which the count of
\* registrations reaches the expected count
CompletingCall ==
    /\ call'.op = "register_sensor_restored"
    /\ tracker.restored_sensors + 1 = tracker.expected_sensors

\* the counters of tr with the Time of Use total reconciled
ReconciledCounters(tr) ==
    [Counters(tr) EXCEPT !.total_kwh =
        IF tr.tariff_type = TARIFF_TOU THEN tr.peak_kwh + tr.offpeak_kwh ELSE @]

\* C11: the completing register_sensor_restored() call performs the rollover
\* itself when the restored last_reset is before the start of the current
\* period: NEM balance updated from the restored values, counters zeroed,
\* last_reset = now; otherwise it keeps the restored (reconciled) counters.
C11_DeferredRollover ==
    [][ CompletingCall =>
            IF RolloverDue
            THEN /\ Counters(tracker') = ZeroCounters
                 /\ tracker'.last_reset = Some(now)
                 /\ tracker'.nem_balance =
                        IF CrossesJan1 THEN 0
                        ELSE tracker.nem_balance
                               + Max(0, tracker.export_kwh - ImportOf(tracker))
            ELSE /\ Counters(tracker') = ReconciledCounters(tracker)
                 /\ tracker'.nem_balance = tracker.nem_balance
                 /\ tracker'.last_reset = tracker.last_reset ]_vars

C11_Witness ==
    /\ call.op = "register_sensor_restored" /\ call.rolled = "carry"
    /\ tracker.restored_sensors = tracker.expected_sensors
    /\ tracker.nem_balance >= 2
    /\ tracker.last_reset = Some(now)
    /\ Counters(tracker) = ZeroCounters

\* an ingestion made while is_restored() is false runs no rollover check:
\* it zeroes no counter and leaves the NEM balance and last_reset alone
IngestionSuppressed ==
    (IsIngestion(call') /\ ~ is_restored(tracker)) =>
        /\ ~ Checked'
        /\ tracker'.nem_balance = tracker.nem_balance
        /\ tracker'.last_reset = tracker.last_reset
        /\ \A f \in DOMAIN ZeroCounters :
               Counters(tracker')[f] >= Counters(tracker)[f]

\* a rollover is computed only once every expected quantity has registered
\* as restored
RolloverAfterAllRestored ==
    Rolled' => tracker'.restored_sensors >= tracker'.expected_sensors

\* C12: while is_restored() is false no ingestion runs the rollover check,
\* and no rollover is computed from a state in which an expected quantity
\* has not yet been restored.
C12_RolloverSuppressed ==
    [][ IngestionSuppressed /\ RolloverAfterAllRestored ]_vars

\* the Time of Use total of tr is the sum of its two buckets
TouTotal(tr) == tr.total_kwh = tr.peak_kwh + tr.offpeak_kwh

\* C13: in Time of Use mode total_kwh = peak_kwh + offpeak_kwh holds when
\* restoration completes, whatever total had been restored, and every
\* import or export ingestion after it, rollovers included, keeps it.
C13_TouTotalInvariant ==
    [][ tracker.tariff_type = TARIFF_TOU =>
            /\ (call'.op = "register_sensor_restored" /\ call'.ret) => TouTotal(tracker')
            /\ (IsIngestion(call') /\ is_restored(tracker) /\ TouTotal(tracker))
                    => TouTotal(tracker')
            /\ (call'.op = "handle_import_change" /\ call'.ret)
                    => TouTotal(tracker') ]_vars

C13_Witness ==
    /\ call.op = "register_sensor_restored" /\ call.ret /\ call.rolled = "skipped"
    /\ tracker.tariff_type = TARIFF_TOU
    /\ tracker.peak_kwh = 2 /\ tracker.offpeak_kwh = 1 /\ tracker.total_kwh = 3

\* C14: once is_restored() is true it stays true, whatever ingestion,
\* rollover, setter, set_values, restore_state or register_sensor_restored
\* call follows.
C14_RestoredMonotonic ==
    [][ is_restored(tracker) => is_restored(tracker') ]_vars

C14_Witness ==
    /\ is_restored(tracker)
    /\ call.op = "restore_state"
    /\ tracker.restored_sensors > tracker.expected_sensors

\* the fields two engine states differ in
ChangedFields(before, after) == { f \in DOMAIN before : before[f] # after[f] }

\* the field each restoration setter owns
SetterField ==
    [ set_peak_kwh        |-> "peak_kwh",
      set_offpeak_kwh     |-> "offpeak_kwh",
      set_total_kwh       |-> "total_kwh",
      set_export_kwh      |-> "export_kwh",
      set_nem_balance_kwh |-> "nem_balance",
      set_last_reset      |-> "last_reset" ]

\* C15: each per-quantity restoration setter changes its own field only: no
\* reconciliation of total, no rollover, no change of the restoration
\* counters or flags.
C15_SettersChangeOwnField ==
    [][ call'.op \in DOMAIN SetterField =>
            /\ ChangedFields(tracker, tracker') \subseteq { SetterField[call'.op] }
            /\ now' = now ]_vars

C15_Witness ==
    /\ call.op = "set_peak_kwh"
    /\ tracker.tariff_type = TARIFF_TOU /\ ~ TouTotal(tracker)
    /\ is_restored(tracker) /\ RolloverDue
    /\ tracker.restored_sensors > 0

----------------------------------------------------------------------------
(* Ranges and manual correction *)

\* C17: peak_kwh, offpeak_kwh, total_kwh and export_kwh are non-negative in
\* every state reachable through the public operations called with
\* arbitrary numbers: out-of-range inputs are clamped, not stored.
C17_CountersNonNegative ==
    \A f \in DOMAIN ZeroCounters : Counters(tracker)[f] >= 0

\* C18: nem_balance is never negative: the setter and set_values clamp a
\* negative input to 0, a rollover adds a non-negative excess or sets 0, and
\* an ingestion that does not roll over leaves it alone.
C18_NemBalanceNonNegative ==
    [][ /\ tracker'.nem_balance >= 0
        /\ Rolled' => (tracker'.nem_balance = 0 \/ tracker'.nem_balance >= tracker.nem_balance)
        /\ (IsIngestion(call') /\ ~ Rolled') => tracker'.nem_balance = tracker.nem_balance
      ]_vars

C18_Witness ==
    /\ call.op = "set_nem_balance_kwh"
    /\ Get(call.args[1]) < 0
    /\ tracker.nem_balance = 0
    /\ tracker.export_kwh < 0

\* the counter set_values overwrites with its i-th argument
SetValuesField == << "peak_kwh", "offpeak_kwh", "total_kwh", "export_kwh", "nem_balance" >>

\* v brought into the range [0, 100000]
InRange(v) == IF v < 0 THEN 0 ELSE IF v > 100000 THEN 100000 ELSE v

\* C19: set_values overwrites exactly the counters whose argument is given,
\* each brought into [0, 100000], and changes nothing else: not the other
\* counters, not last_reset, not the restoration flags; it triggers neither
\* a rollover nor a reconciliation of the Time of Use total.
C19_SetValuesFrame ==
    [][ call'.op = "set_values" =>
            /\ \A i \in 1..5 :
                   tracker'[SetValuesField[i]] =
                       IF call'.args[i] = None THEN tracker[SetValuesField[i]]
                       ELSE InRange(Get(call'.args[i]))
            /\ ChangedFields(tracker, tracker') \subseteq
                   { SetValuesField[i] : i \in 1..5 }
            /\ now' = now ]_vars

C19_Witness ==
    /\ call.op = "set_values"
    /\ call.args[1] # None /\ Get(call.args[1]) < 0 /\ tracker.peak_kwh = 0
    /\ call.args[3] = None
    /\ ~ TouTotal(tracker)
    /\ is_restored(tracker) /\ RolloverDue

----------------------------------------------------------------------------
(* Sample ingestion *)

\* the sample of call c is a decrease to a value below the reset threshold
ResetSample(c) ==
    NumericPair(c) /\ c.new.val < c.old.val /\ c.new.val < 10

\* the sample of call c is a decrease to a value at or above the threshold
GlitchSample(c) ==
    NumericPair(c) /\ c.old.val > c.new.val /\ c.new.val >= 10

\* C7: a decrease to a value below 10 kWh is ingested as a delta of exactly
\* the new value: the receiving bucket grows by new.
C7_ResetDelta ==
    [][ ResetSample(call') =>
            AccumulatedBy(IF Rolled' THEN ZeroCounters ELSE Counters(tracker),
                          call'.new.val) ]_vars

C7_Witness ==
    /\ ResetSample(call) /\ call.new.val > 0
    /\ tracker.total_kwh + tracker.export_kwh >= call.new.val

\* C8: a decrease to a value of 10 kWh or more is discarded: no counter, no
\* NEM balance, no last_reset changes and no rollover check runs.
C8_GlitchDiscarded ==
    [][ GlitchSample(call') =>
            /\ Counters(tracker') = Counters(tracker)
            /\ tracker'.nem_balance = tracker.nem_balance
            /\ tracker'.last_reset = tracker.last_reset
            /\ ~ Checked' ]_vars

C8_Witness ==
    /\ GlitchSample(call) /\ call.op = "handle_import_change"
    /\ is_restored(tracker) /\ RolloverDue
    /\ tracker.total_kwh > 0

\* the new value of the sample of call c is absent, a sentinel or not a number
MalformedSample(c) == IsIngestion(c) /\ c.new.kind # "num"

\* C16: a sample whose new value is absent, "unavailable", "unknown" or
\* non-numeric is a no-op: no counter, NEM balance or last_reset changes, no
\* rollover check runs, and the handler returns False instead of raising.
C16_MalformedIsNoOp ==
    [][ MalformedSample(call') =>
            /\ Counters(tracker') = Counters(tracker)
            /\ tracker'.nem_balance = tracker.nem_balance
            /\ tracker'.last_reset = tracker.last_reset
            /\ ~ Checked'
            /\ call'.ret = FALSE ]_vars

C16_Witness ==
    /\ MalformedSample(call) /\ call.new.kind = "text" /\ call.old.kind = "num"
    /\ is_restored(tracker) /\ RolloverDue
    /\ tracker.export_kwh > 0

\* the delta of the numeric sample pair of call c
SampleDelta(c) ==
    IF c.new.val >= c.old.val THEN c.new.val - c.old.val
    ELSE IF c.new.val < 10 THEN c.new.val
    ELSE 0

\* the instant t is in the peak window of the rate table: a working day that
\* is no public holiday, at or after peak_start and before peak_end
ClassifiedPeak(t) ==
    /\ TouConfig.parse_ok
    /\ ~ (TouConfig.weekend_is_offpeak /\ Weekday(t) \in {5, 6})
    /\ ~ \E h \in TouConfig.public_holidays : h.y = t.y /\ h.m = t.m /\ h.d = t.d
    /\ t.hh * 60 + t.mm >= TouConfig.peak_start.hh * 60 + TouConfig.peak_start.mm
    /\ t.hh * 60 + t.mm < TouConfig.peak_end.hh * 60 + TouConfig.peak_end.mm

----------------------------------------------------------------------------
(* Calculations *)

\* the tier list is sorted by ascending limit
SortedTiers(tiers) ==
    \A i \in 1..Len(tiers), j \in 1..Len(tiers) : i < j => tiers[i].limit <= tiers[j].limit

\* C28: on a tier list sorted by ascending limit select_tier returns the
\* first tier whose limit >= usage (a usage equal to a limit selects that
\* tier), the last tier when usage exceeds every limit, and no tier for an
\* empty list.
C28_TierSelection ==
    (call.op = "select_tier" /\ SortedTiers(call.args[2])) =>
        LET usage == call.args[1]
            tiers == call.args[2]
        IN  IF Len(tiers) = 0 THEN call.out = None
            ELSE IF \A i \in 1..Len(tiers) : tiers[i].limit < usage
            THEN call.out = Some(tiers[Len(tiers)])
            ELSE \E i \in 1..Len(tiers) :
                    /\ call.out = Some(tiers[i])
                    /\ tiers[i].limit >= usage
                    /\ \A j \in 1..(i - 1) : tiers[j].limit < usage

C28_Witness ==
    /\ call.op = "select_tier"
    /\ Len(call.args[2]) = 3 /\ SortedTiers(call.args[2])
    /\ call.args[2][1].limit < call.args[1]
    /\ call.args[2][2].limit = call.args[1]
    /\ call.args[2][3].limit > call.args[1]
    /\ call.out = Some(call.args[2][2])

\* the calendar: 11 and 12 January 2025 are a Saturday and a Sunday
IsWeekendDay(t) == t.y = 2025 /\ t.m = 1 /\ t.d \in {11, 12}

IsListedHoliday(t, cfg) ==
    \E h \in cfg.public_holidays : h.y = t.y /\ h.m = t.m /\ h.d = t.d

MinuteOfDay(hm) == 60 * hm.hh + hm.mm

\* t is inside the peak window of the schedule cfg
InPeakWindow(t, cfg) ==
    /\ MinuteOfDay(cfg.peak_start) <= MinuteOfDay(t)
    /\ MinuteOfDay(t) < MinuteOfDay(cfg.peak_end)

\* C29: a timestamp on a Saturday or Sunday when weekend_is_offpeak is true,
\* or on a listed public holiday, classifies as off-peak whatever the time
\* of day, inside the peak window included.
C29_OffpeakOverrides ==
    (call.op = "is_peak_time"
        /\ \/ (IsWeekendDay(call.args[1]) /\ call.args[2].weekend_is_offpeak)
           \/ IsListedHoliday(call.args[1], call.args[2]))
    => call.out = FALSE

C29_Witness ==
    /\ call.op = "is_peak_time"
    /\ call.args[2].parse_ok /\ call.args[2].weekend_is_offpeak
    /\ call.args[1].d = 12
    /\ InPeakWindow(call.args[1], call.args[2])
    /\ call.out = FALSE

\* C30: on a weekday that is no holiday a timestamp is peak iff
\* peak_start <= time of day < peak_end: exactly peak_start is peak, exactly
\* peak_end is off-peak.
C30_HalfOpenWindow ==
    (call.op = "is_peak_time" /\ call.args[2].parse_ok
        /\ ~ IsWeekendDay(call.args[1])
        /\ ~ IsListedHoliday(call.args[1], call.args[2]))
    => (call.out <=> InPeakWindow(call.args[1], call.args[2]))

C30_Witness ==
    /\ call.op = "is_peak_time" /\ call.args[2].parse_ok
    /\ call.args[1].d = 10
    /\ MinuteOfDay(call.args[1]) = MinuteOfDay(call.args[2].peak_end)
    /\ call.out = FALSE

\* C25: in Time of Use mode, for non-negative peak, offpeak and effective
\* export E: matched_peak = min(E, peak), matched_offpeak = min(E -
\* matched_peak, offpeak), excess = E - matched_peak - matched_offpeak; the
\* three add up to E and off-peak is matched only once peak is fully matched.
C25_PeakFirstOffset ==
    (call.op = "calculate_export_credit" /\ call.args[5] = TARIFF_TOU) =>
        LET peak == call.args[1]
            off  == call.args[2]
            E    == call.args[4]
            mp   == IF E <= peak THEN E ELSE peak
            mo   == IF E - mp <= off THEN E - mp ELSE off
        IN  /\ call.out.matched_peak = mp
            /\ call.out.matched_offpeak = mo
            /\ call.out.excess_export = E - mp - mo
            /\ call.out.matched_peak + call.out.matched_offpeak
                   + call.out.excess_export = E
            /\ call.out.matched_offpeak > 0 => call.out.matched_peak = peak

C25_Witness ==
    /\ call.op = "calculate_export_credit" /\ call.args[5] = TARIFF_TOU
    /\ call.args[1] = 2 /\ call.args[2] = 3 /\ call.args[4] = 3
    /\ call.out.matched_peak = 2 /\ call.out.matched_offpeak = 1
    /\ call.out.excess_export = 0

----------------------------------------------------------------------------
(* Bill derivation *)

\* the step is a call of calculate_components; its snapshot and what it
\* handed back
IsDerivation == call.op = "calculate_components"
Snapshot == call.args[1]
Outcome == call.out

HasTariff(data) ==
    IF IsNone(data) THEN FALSE ELSE ~ IsNone(Get(data).tariff_a)

AllComponents ==
    { "import_cost", "energy_cost", "capacity_charge", "network_charge",
      "retail_charge", "afa_cost", "eei_rebate", "kwtbb_tax", "service_tax",
      "export_credit", "excess_export_kwh", "net_bill" }

\* a missing snapshot or one without tariff gives a component set of zeros
ZeroSetWhenMissing ==
    IsDerivation /\ ~ HasTariff(Snapshot) =>
        /\ ~ Outcome.raised
        /\ DOMAIN Outcome.components # {}
        /\ \A k \in DOMAIN Outcome.components : Outcome.components[k].v = 0

\* every other snapshot gives a value for every component
ValueForEveryComponent ==
    IsDerivation /\ HasTariff(Snapshot) =>
        /\ ~ Outcome.raised
        /\ DOMAIN Outcome.components = AllComponents

\* C23: calculate_components never raises to the caller: a missing snapshot
\* or one without a tariff section gives a component set in which every
\* component is zero, and every other snapshot, in every engine state,
\* gives a value for every component.
C23_NeverRaises == ZeroSetWhenMissing /\ ValueForEveryComponent

\* C22: calculate_components is a pure read: the counters, the NEM balance,
\* last_reset, the last raw readings and the restoration flags are the same
\* before and after the call, for every engine state and every snapshot.
C22_PureRead ==
    [][call'.op = "calculate_components" => tracker' = tracker]_vars

\* the derivation ran on a snapshot with a tariff, on an engine that holds
\* import, export and a carried balance
C22_Witness ==
    /\ IsDerivation /\ HasTariff(Snapshot)
    /\ ImportOf(tracker) > 0 /\ tracker.export_kwh > 0 /\ tracker.nem_balance > 0

\* C24: the net bill is max(0, total import cost - export credit): for
\* every engine state and rate table calculate_components returns a
\* net_bill that is never negative.
C24_NetBillNonNegative ==
    IsDerivation =>
        /\ ~ Outcome.raised
        /\ Outcome.components.net_bill.v >= 0
        /\ HasTariff(Snapshot) =>
               Outcome.components.net_bill.v =
                   Max(0, Outcome.components.import_cost.v
                          - Outcome.components.export_credit.v)

\* C26: the carried NEM balance counts as export in the bill: the
\* excess_export_kwh returned by calculate_components is
\* max(0, export_kwh + nem_balance - total import), the total import being
\* peak + offpeak in Time of Use and total_kwh in Standard.
C26_BalanceCountsAsExport ==
    IsDerivation /\ HasTariff(Snapshot) =>
        /\ ~ Outcome.raised
        /\ Outcome.components.excess_export_kwh.v =
               Max(0, tracker.export_kwh + tracker.nem_balance - ImportOf(tracker))

\* the EEI rebate of q kWh, by the cap and the tiers that apply to import
EeiRebateFor(q, eei) ==
    IF q > eei.limit THEN 0
    ELSE IF eei.tiers # <<>>
    THEN (q * Get(select_tier(q, eei.tiers)).rate.v) \div 100
    ELSE (q * eei.rate.v) \div 100

\* that rebate per exported kWh, in sen
EeiExportRate(q, eei) == IF q = 0 THEN 0 ELSE (EeiRebateFor(q, eei) * 100) \div q

\* the credit of the matched energy at energy rate + variable rate +
\* eei_export_rate
ExpectedCredit(tr, data) ==
    LET tariff   == Get(data.tariff_a)
        matched  == components_offset(tr)
        energy   == calculate_energy_cost(Decimal(tr.peak_kwh), Decimal(tr.offpeak_kwh),
                                          Decimal(ImportOf(tr)), tariff, tr.tariff_type)
        variable == tariff.charges.capacity.v + tariff.charges.network.v
        eei_rate == EeiExportRate(effective_export(tr), data.eei)
    IN  IF tr.tariff_type = TARIFF_TOU
        THEN ( matched.matched_peak * (energy.peak_rate.v + variable + eei_rate)
               + matched.matched_offpeak * (energy.offpeak_rate.v + variable + eei_rate) )
             \div 100
        ELSE ( matched.matched_peak * (energy.rate.v + variable + eei_rate) ) \div 100

\* C27: the eei_export_rate that calculate_components adds to the rate of
\* the export credit is the EEI rebate of the effective export quantity
\* (cap and tiers as for import) divided by that quantity, a non-positive
\* rate, so that the credit returned is the matched energy valued at energy
\* rate + variable rate + eei_export_rate.
C27_EeiExportRate ==
    IsDerivation /\ HasTariff(Snapshot) /\ effective_export(tracker) > 0 =>
        /\ ~ Outcome.raised
        /\ EeiExportRate(effective_export(tracker), Get(Snapshot).eei) <= 0
        /\ Outcome.components.export_credit.v = ExpectedCredit(tracker, Get(Snapshot))

\* calculate_kwtbb_tax, called on its own: the rate applied to the base it
\* is given above the threshold, zero up to it
KwtbbTaxOfBase ==
    call.op = "calculate_kwtbb_tax" =>
        LET usage == call.args[1].v
            base  == call.args[2].v
            cfg   == call.args[3]
        IN  Outcome.v = IF usage > cfg.threshold THEN (base * cfg.rate.v) \div 100 ELSE 0

\* C31: the consumption tax (KWTBB) that the derivation yields is
\* (energy charge + variable charges + EEI rebate) x rate / 100 when the
\* total usage is strictly above the threshold and zero otherwise; the
\* retail charge and the AFA charge are not part of its base.
C31_ConsumptionTax ==
    IsDerivation /\ HasTariff(Snapshot) =>
        /\ ~ Outcome.raised
        /\ LET c    == Outcome.components
               cfg  == Get(Snapshot).tax.kwtbb
               base == c.energy_cost.v + c.capacity_charge.v + c.network_charge.v
                       + c.eei_rebate.v
           IN  c.kwtbb_tax.v = IF ImportOf(tracker) > cfg.threshold
                               THEN (base * cfg.rate.v) \div 100
                               ELSE 0

\* calculate_service_tax, called on its own: the share of the base it is
\* given that falls on the usage above the exemption limit, at the rate
ServiceTaxOfBase ==
    call.op = "calculate_service_tax" =>
        LET usage == call.args[1].v
            base  == call.args[2].v
            cfg   == call.args[3]
        IN  Outcome.v = IF usage <= cfg.exemption_limit \/ usage = 0 THEN 0
                        ELSE (((base * (usage - cfg.exemption_limit)) \div usage)
                              * cfg.rate.v) \div 100

\* C32: the service tax that the derivation yields is pro-rated: zero when
\* the usage is at most the exemption limit or zero, otherwise
\* base bill x ((usage - exemption limit) / usage) x rate / 100, the base
\* bill being energy + variable + retail + AFA + EEI on the whole usage.
C32_ServiceTax ==
    IsDerivation /\ HasTariff(Snapshot) =>
        /\ ~ Outcome.raised
        /\ LET c     == Outcome.components
               cfg   == Get(Snapshot).tax.service_tax
               usage == ImportOf(tracker)
               base  == c.energy_cost.v + c.capacity_charge.v + c.network_charge.v
                        + c.retail_charge.v + c.afa_cost.v + c.eei_rebate.v
           IN  c.service_tax.v =
                   IF usage <= cfg.exemption_limit \/ usage = 0 THEN 0
                   ELSE (((base * (usage - cfg.exemption_limit)) \div usage)
                         * cfg.rate.v) \div 100

\* an amount in sen, rounded to the sen
Sen(a) == Digits(Round2(a), 2)

\* the step is the derivation on the engine and the rates of the example
IsExample ==
    /\ IsDerivation /\ Snapshot = ExampleSnapshot
    /\ tracker.tariff_type = TARIFF_TOU
    /\ tracker.peak_kwh = 160 /\ tracker.offpeak_kwh = 798
    /\ tracker.export_kwh = 504 /\ tracker.nem_balance = 0
    /\ now.y = 2025 /\ now.m = 1

\* the taxes of the example, from calculate_kwtbb_tax and from
\* calculate_service_tax called on their own with floats: 6.44 on the base
\* 402.4854 and 10.47 on the base bill 350.2154
ExampleTaxes ==
    /\ ( call.op = "calculate_kwtbb_tax" /\ call.args[1] = Float(958)
         /\ call.args[2] = FloatOf(4024854, 4) ) => Sen(Outcome) = 644
    /\ ( call.op = "calculate_service_tax" /\ call.args[1] = Float(958)
         /\ call.args[2] = FloatOf(3502154, 4) ) => Sen(Outcome) = 1047

\* C33: the worked example: with peak 160 kWh, offpeak 798 kWh, export
\* 504 kWh and the rates of the example the derivation yields consumption
\* tax 6.44, service tax 10.78, total import cost 367.43 (base bill 350.21
\* plus the taxes), export matched 160 peak + 344 off-peak with none left
\* over, net credit 214.84 and net bill 152.59, in RM to 2 decimals.
C33_WorkedExample ==
    IsExample =>
        /\ ~ Outcome.raised
        /\ Sen(Outcome.components.kwtbb_tax) = 644
        /\ Sen(Outcome.components.service_tax) = 1078
        /\ Sen(Outcome.components.import_cost) = 36743
        /\ Sen(Outcome.components.import_cost) =
               35021 + Sen(Outcome.components.kwtbb_tax)
               + Sen(Outcome.components.service_tax)
        /\ components_offset(tracker).matched_peak = 160
        /\ components_offset(tracker).matched_offpeak = 344
        /\ Outcome.components.excess_export_kwh = Decimal(0)
        /\ Sen(Outcome.components.export_credit) = 21484
        /\ Sen(Outcome.components.net_bill) = 15259

----------------------------------------------------------------------------
(* Bill sensors *)

\* the step reads a bill-derived value of an entity before restoration
ReadUnrestored(ops) == call.op \in ops /\ ~ is_restored(tracker)

\* the states of the four bill-derived sensors are None until restoration
StatesAbsentUntilRestored ==
    ReadUnrestored({"native_value"}) => Outcome.kind = "None"

\* the cost breakdown of the Bill sensor is None until restoration
AttributesAbsentUntilRestored ==
    ReadUnrestored({"extra_state_attributes"}) => Outcome.kind = "None"

\* C21: while is_restored() is false, every bill-derived value the sensor
\* entities publish (net bill, import cost, export credit, excess export,
\* and the cost breakdown attributes of the Bill sensor) is None, never a
\* computed number.
C21_AbsentUntilRestored == StatesAbsentUntilRestored /\ AttributesAbsentUntilRestored

\* C38: rollover precedes accumulation: when a positive import or export
\* delta arrives after restoration and the rollover check fires on it, the
\* balance is computed from the counters without the delta (the excess of
\* the closing period, or 0 on annual forfeiture) and the delta is credited
\* to the new period: afterwards the receiving bucket holds exactly the
\* delta and the other counters are 0.
C38_RolloverPrecedesAccumulation ==
    [][ Rolled' /\ IsIngestion(call') =>
            /\ is_restored(tracker) /\ IngestedDelta(call') > 0
            /\ AccumulatedOnto(ZeroCounters)
            /\ tracker'.nem_balance =
                   IF call'.rolled = "forfeit" THEN 0
                   ELSE tracker.nem_balance
                        + Max(0, tracker.export_kwh - ImportOf(tracker)) ]_vars

\* an export delta rolled a period over whose export exceeded its import:
\* the new period holds the delta alone, the balance the excess
C38_Witness ==
    /\ call.op = "handle_export_change" /\ call.rolled = "carry"
    /\ tracker.export_kwh = IngestedDelta(call) /\ tracker.export_kwh > 0
    /\ ImportOf(tracker) = 0
    /\ tracker.nem_balance > 0

\* the billing period of an instant starts at 00:00 on the billing day on or
\* before it
PeriodStartAt(t) ==
    LET b == tracker.billing_day
    IN  IF t.d >= b THEN DT(t.y, t.m, b, 0, 0)
        ELSE IF t.m = 1 THEN DT(t.y - 1, 12, b, 0, 0)
        ELSE DT(t.y, t.m - 1, b, 0, 0)

\* the last rollover stamp lies in the billing period of the clock, not
\* after the clock
ResetInCurrentPeriod ==
    /\ ~ IsNone(tracker.last_reset)
    /\ TKey(Get(tracker.last_reset)) <= TKey(now)
    /\ PeriodStartAt(Get(tracker.last_reset)) = PeriodStartAt(now)

\* C39: at most one rollover per billing period: a rollover stamps
\* last_reset with the time of the check, and every further rollover check
\* at that time or later in the same billing period, at restoration
\* completion or on a delta, rolls nothing over: it leaves nem_balance and
\* last_reset as they are, so the excess of a period is added at most once.
C39_OneRolloverPerPeriod ==
    [][ Checked' =>
            /\ Rolled' => tracker'.last_reset = Some(now)
            /\ Rolled => ~ Rolled'
            /\ ResetInCurrentPeriod =>
                   /\ ~ Rolled'
                   /\ tracker'.nem_balance = tracker.nem_balance
                   /\ tracker'.last_reset = tracker.last_reset ]_vars

\* a delta accumulated without rollover in a period that a rollover opened:
\* the balance holds an excess, the stamp is the clock, the check ran
C39_Witness ==
    /\ IsIngestion(call) /\ call.rolled = "none" /\ IngestedDelta(call) > 0
    /\ tracker.last_reset = Some(now) /\ now \notin StoredTimes
    /\ tracker.nem_balance >= 2

AllEntitiesAdded == added = EnergySensors(tracker.tariff_type)

\* C40: restoration eventually completes: once the energy sensor entities
\* of the tariff have all been added to the host, is_restored() is
\* eventually true, with or without stored state, for Standard and for
\* Time of Use.
C40_RestorationCompletes == AllEntitiesAdded ~> is_restored(tracker)

\* a fresh install: every entity was added, none had a number to restore,
\* and the engine is restored
C40_Witness ==
    /\ AllEntitiesAdded
    /\ Counters(tracker) = ZeroCounters /\ IsNone(tracker.last_reset)
    /\ is_restored(tracker)

----------------------------------------------------------------------------
(* Meter chains *)

\* the energy accumulated from the meter that handler op listens to
Energy(tr, op) == IF op = "handle_export_change" THEN tr.export_kwh ELSE ImportOf(tr)

\* the last raw reading of that meter the engine has recorded
LastReading(tr, op) ==
    IF op = "handle_export_change" THEN tr.last_export_state ELSE tr.last_import_state

\* the step delivers a valid reading that is not below the last reading the
\* engine recorded
ReadingAfterRecorded ==
    /\ IsIngestion(call') /\ call'.new.kind = "num"
    /\ LastReading(tracker, call'.op) # None
    /\ Get(LastReading(tracker, call'.op)) <= call'.new.val

\* C36: the delta of every import (export) sample is taken against the
\* last raw reading the engine itself recorded: a valid reading that
\* follows an unavailable / unknown gap adds the difference to the last
\* valid reading before the gap, so that a non-decreasing meter accumulates
\* last valid reading - first valid reading.
C36_DeltaAgainstRecorded ==
    [][ ReadingAfterRecorded /\ ~ Rolled' =>
            Energy(tracker', call'.op) =
                Energy(tracker, call'.op)
                + call'.new.val - Get(LastReading(tracker, call'.op)) ]_vars

\* the step before read b after a with 10 <= b < a on the import meter, and
\* this step reads c >= a
RecoveryAfterDrop ==
    /\ call.op = "handle_import_change" /\ NumericPair(call)
    /\ SENSOR_RESET_THRESHOLD <= call.new.val /\ call.new.val < call.old.val
    /\ call'.op = "handle_import_change" /\ NumericPair(call')
    /\ call'.old = call.new /\ call'.new.val >= call.old.val

\* C37: a transient decrease is compensated: when the import meter reads
\* a, then b with 10 <= b < a, then c >= a, the energy accumulated over the
\* two samples is c - a; the drop itself accumulated nothing, so the
\* recovery accumulates c - a.
C37_TransientDecrease ==
    [][ RecoveryAfterDrop /\ ~ Rolled' =>
            ImportOf(tracker') = ImportOf(tracker) + call'.new.val - call.old.val ]_vars

----------------------------------------------------------------------------
(* Legacy bulk restore and the manual-override service *)

\* the engine after a bulk restore with the arguments a
BulkRestored(tr, a) ==
    [tr EXCEPT !.peak_kwh    = InRange(a[1]),
               !.offpeak_kwh = InRange(a[2]),
               !.total_kwh   = InRange(a[3]),
               !.export_kwh  = InRange(a[4]),
               !.last_reset  = Some(a[5])]

IsServiceCall == call'.op = "set_energy_values"

\* the four counters of the call data reach the engine, each brought into
\* [0, 100000]
CountersOverwritten ==
    \A i \in 1..4 :
        tracker'[SetValuesField[i]] =
            IF call'.args[i] = None THEN tracker[SetValuesField[i]]
            ELSE InRange(Get(call'.args[i]))

\* a NEM balance carried by the call data reaches the engine
BalanceOverwritten ==
    call'.args[5] # None => tracker'.nem_balance = InRange(Get(call'.args[5]))

ServiceOverwritesCounters == [][IsServiceCall => CountersOverwritten]_vars

\* C35: the set_energy_values service overwrites each of peak, offpeak,
\* total, export and the NEM balance: a call that carries a NEM balance
\* leaves the engine's nem_balance at that value brought into [0, 100000].
C35_ServiceSetsBalance ==
    [][IsServiceCall => CountersOverwritten /\ BalanceOverwritten]_vars

\* the step delivers again the sample the previous step delivered
DuplicateDelivery ==
    /\ IsIngestion(call') /\ call'.op = call.op
    /\ call'.new = call.new /\ call'.old = call.old
    /\ now' = now

\* C9: the second delivery of the same (value, timestamp) sample changes no
\* accumulated energy.
C9_DuplicateIsNoOp ==
    [][ DuplicateDelivery => Counters(tracker') = Counters(tracker) ]_vars

====
